---- MODULE Spec2Model ----
(***************************************************************************)
(* Paper-trading engine of mudrex.paper: wallet, orders, positions, the    *)
(* trade ledger, the pending-limit-order index, the mock price feed and    *)
(* the SL/TP monitor's tick, as one state machine.                         *)
(*                                                                         *)
(* Decimal values are modelled as exact rationals <<n, d>> in lowest terms *)
(* with d > 0 (decimal rounding at 28 significant digits is not modelled). *)
(* Identifiers produced by generate_paper_id are modelled as the index of  *)
(* the object in its map, in insertion order (Python dicts keep it).       *)
(* Timestamps other than expires_at, pnl_percent and the cached            *)
(* unrealized_pnl are left out: no operation modelled here reads them.     *)
(* The estimated liquidation_price is not stored: WarnSpec, the one place  *)
(* that reads it, computes it.  result is how the most recent              *)
(* call ended: "ok", "False" (a call that returned False) or the name of   *)
(* the exception it raised.  feed is the price feed the engine was built   *)
(* with: "mock" (MockPriceFeedService) or "live" (PriceFeedService).       *)
(*                                                                         *)
(* FundingMonitor and LiquidationEngine take the engine as a constructor   *)
(* argument and read engine._wallet, engine._positions and                 *)
(* position.side.value, and compare position.opened_at with a              *)
(* timezone-aware clock.  engine_kind is the object they were given:       *)
(* "PaperTradingEngine" (the class of engine.py, which has none of these:  *)
(* the reads raise AttributeError or TypeError) or "Aliased" (the same     *)
(* engine answering _wallet and _positions, with positions whose side is   *)
(* an Enum member and whose opened_at is timezone-aware).  payments and    *)
(* last_funding_time are the FundingMonitor's _payments and                *)
(* _last_funding_time; its statistics and the cumulative_funding it adds   *)
(* to a position are left out.  warned_positions and liquidations are the  *)
(* LiquidationEngine's _warned_positions and _liquidations; warnings is    *)
(* the log of the margin warnings it has issued (logger.warning and the    *)
(* on_margin_warning callback), one position id for each.  A position      *)
(* that the LiquidationEngine deletes from engine._positions keeps its     *)
(* place in the sequence with status "DELETED": it is in no collection of  *)
(* the engine any more.                                                    *)
(*                                                                         *)
(* The SLTPMonitor runs _monitor_loop in a thread of its own: running is   *)
(* its _running flag, thread is where the thread is ("none" before         *)
(* start(), "loop" at the test of the while, "tick" inside                 *)
(* check_all_positions between the price fetch and the loop over the       *)
(* snapshot, "sleep", "exited"), tick is the snapshot the tick took (the   *)
(* OPEN positions and the prices fetched), and stop_call is where a call   *)
(* of stop() is ("none", "join" while it waits in Thread.join,             *)
(* "returned").  Thread.join(timeout = interval + 1) can time out only     *)
(* while a tick is executing: a sleep lasts interval seconds.  In          *)
(* RaceSpec the thread is followed into engine.check_limit_orders          *)
(* instead: "fill" is the body of its loop for one order, after the test   *)
(* of the order's status, and tick holds the order ids still to visit and  *)
(* the price read for the symbol.  orphan is the loop thread of an         *)
(* earlier start() that a later start() has replaced in _thread: at is     *)
(* where it is ("none" when there is no such thread) and tick its          *)
(* snapshot.                                                               *)
(*                                                                         *)
(* fee_rate is the engine's fee_rate, a constructor argument that          *)
(* defaults to DEFAULT_FEE_RATE.  leverage_settings is left out.           *)
(***************************************************************************)
EXTENDS Integers, Sequences, FiniteSets, TLC

VARIABLES wallet, orders, positions, trade_history, pending_orders, prices,
          now, result, feed, engine_kind, fee_rate, payments, last_funding_time,
          warned_positions, warnings, liquidations, running, thread, tick,
          stop_call, orphan

vars == <<wallet, orders, positions, trade_history, pending_orders, prices,
          now, result, feed, engine_kind, fee_rate, payments, last_funding_time,
          warned_positions, warnings, liquidations, running, thread, tick,
          stop_call, orphan>>

\* the SLTPMonitor's thread and the call of stop()
threads == <<running, thread, tick, stop_call, orphan>>

\* what the calls of PaperTradingEngine do not write
ext == <<feed, engine_kind, payments, last_funding_time,
         warned_positions, warnings, liquidations, threads, fee_rate>>

(***************************************************************************)
(* Bounds of the model.                                                    *)
(***************************************************************************)
MaxOrders == 2
MaxClock == 2

\* FundingPayments recorded
MaxPayments == 3

\* steps of the funding clock
MaxFundingClock == 4

\* margin warnings issued
MaxWarnings == 3

(***************************************************************************)
(* Decimal arithmetic, exact.                                              *)
(***************************************************************************)
Abs(x) == IF x < 0 THEN -x ELSE x

RECURSIVE Gcd(_, _)
Gcd(a, b) == IF b = 0 THEN a ELSE Gcd(b, a % b)

Norm(n, d) == LET g == Gcd(Abs(n), d) IN <<n \div g, d \div g>>

Dec(n) == <<n, 1>>

Frac(n, d) == Norm(n, d)

Add(x, y) ==
    LET l == (x[2] \div Gcd(x[2], y[2])) * y[2]
    IN  Norm(x[1] * (l \div x[2]) + y[1] * (l \div y[2]), l)

Neg(x) == <<-x[1], x[2]>>

Sub(x, y) == Add(x, Neg(y))

Mul(x, y) ==
    LET g1 == Gcd(Abs(x[1]), y[2])
        g2 == Gcd(Abs(y[1]), x[2])
    IN  Norm((x[1] \div g1) * (y[1] \div g2), (x[2] \div g2) * (y[2] \div g1))

Div(x, y) == Mul(x, IF y[1] < 0 THEN <<-y[2], -y[1]>> ELSE <<y[2], y[1]>>)

\* the factor that brings x to the common denominator of x and y
Scale(x, y) == y[2] \div Gcd(x[2], y[2])

Lt(x, y) == x[1] * Scale(x, y) < y[1] * Scale(y, x)

Le(x, y) == x[1] * Scale(x, y) <= y[1] * Scale(y, x)

Zero == Dec(0)

One == Dec(1)

\* Python's None, for an optional Decimal and for an optional id.
None == <<>>

NoId == 0

\* None for an optional timestamp
NoTime == -1

(***************************************************************************)
(* The inputs the operations are called with.                              *)
(***************************************************************************)
Symbols == {"BTCUSDT"}

Sides == {"LONG", "SHORT"}

\* the prices set_price moves the symbol between
PriceLevels == {Dec(50), Dec(200)}

InitialBalance == Dec(300)

\* (stoploss_price, takeprofit_price) of an order
NoRisk == <<None, None>>

SomeRisk == <<Dec(50), Dec(200)>>

OrderInput(quantity, leverage, risk, reduce_only) ==
    [quantity |-> Dec(quantity), leverage |-> leverage, risk |-> risk,
     reduce_only |-> reduce_only]

\* the (quantity, leverage, stoploss/takeprofit, reduce_only) arguments of
\* the orders submitted
OrderInputs ==
    {OrderInput(1, 1, NoRisk, FALSE), OrderInput(2, 1, NoRisk, FALSE),
     OrderInput(1, 2, NoRisk, FALSE), OrderInput(1, 1, SomeRisk, FALSE),
     OrderInput(1, 1, NoRisk, TRUE), OrderInput(2, 1, NoRisk, TRUE)}

\* calls with an argument the validation refuses: an unknown side, an
\* unknown symbol, a quantity of 0, a leverage of 0
BadCall(symbol, side, quantity, leverage) ==
    [symbol |-> symbol, side |-> side, quantity |-> Dec(quantity),
     leverage |-> leverage]

BadCalls ==
    {BadCall("BTCUSDT", "BUY", 1, 1), BadCall("NOSUCH", "LONG", 1, 1),
     BadCall("BTCUSDT", "LONG", 0, 1), BadCall("BTCUSDT", "SHORT", 1, 0)}

\* the order arguments of the behaviours that include the failing calls
CallInputs == {OrderInput(1, 1, NoRisk, FALSE), OrderInput(1, 1, NoRisk, TRUE)}

\* DEFAULT_FEE_RATE = Decimal("0.0005")
DEFAULT_FEE_RATE == Frac(5, 10000)

LIMIT_ORDER_EXPIRY_HOURS == 24

\* the clock advances in steps of this many hours
ClockStep == LIMIT_ORDER_EXPIRY_HOURS

(***************************************************************************)
(* MockPriceFeedService                                                    *)
(***************************************************************************)
get_price(symbol) == prices[symbol]

is_valid_symbol(symbol) == symbol \in DOMAIN prices

\* str.upper on the side argument
upper(side) ==
    CASE side = "long" -> "LONG"
      [] side = "short" -> "SHORT"
      [] OTHER -> side

\* the asset info both feeds carry for a symbol
MIN_QUANTITY == Frac(1, 1000)

MAX_QUANTITY == Dec(1000000)

QUANTITY_STEP == Frac(1, 1000)

MIN_LEVERAGE == 1

MAX_LEVERAGE == 100

\* MockPriceFeedService.validate_quantity
Mock_validate_quantity(symbol, quantity) ==
    symbol \in DOMAIN prices /\ Lt(Zero, quantity)

\* PriceFeedService.validate_quantity
Live_validate_quantity(symbol, quantity) ==
    /\ symbol \in DOMAIN prices
    /\ ~Lt(quantity, MIN_QUANTITY)
    /\ ~Lt(MAX_QUANTITY, quantity)

\* MockPriceFeedService.validate_leverage
Mock_validate_leverage(symbol, leverage) ==
    symbol \in DOMAIN prices /\ ~(leverage < 1 \/ leverage > 100)

\* PriceFeedService.validate_leverage
Live_validate_leverage(symbol, leverage) ==
    /\ symbol \in DOMAIN prices
    /\ ~(leverage < MIN_LEVERAGE)
    /\ ~(leverage > MAX_LEVERAGE)

\* self.price_feed.validate_quantity
validate_quantity(symbol, quantity) ==
    IF feed = "mock" THEN Mock_validate_quantity(symbol, quantity)
    ELSE Live_validate_quantity(symbol, quantity)

\* self.price_feed.validate_leverage
validate_leverage(symbol, leverage) ==
    IF feed = "mock" THEN Mock_validate_leverage(symbol, leverage)
    ELSE Live_validate_leverage(symbol, leverage)

(***************************************************************************)
(* PaperWallet                                                             *)
(***************************************************************************)
PaperWallet(balance, available) ==
    [balance |-> balance, available |-> available, locked_margin |-> Zero,
     realized_pnl |-> Zero, total_fees_paid |-> Zero]

lock_margin(w, amount) ==
    [w EXCEPT !.available = Sub(@, amount),
              !.locked_margin = Add(@, amount)]

release_margin(w, amount) ==
    [w EXCEPT !.locked_margin = Sub(@, amount),
              !.available = Add(@, amount)]

\* realize_pnl that pays the pnl out without recording it as realized
realize_pnl_unrecorded(w, pnl, released_margin) ==
    [w EXCEPT !.locked_margin = Sub(@, released_margin),
              !.available = Add(@, Add(released_margin, pnl)),
              !.balance = Add(@, pnl)]

realize_pnl(w, pnl, released_margin) ==
    [w EXCEPT !.realized_pnl = Add(@, pnl),
              !.locked_margin = Sub(@, released_margin),
              !.available = Add(@, Add(released_margin, pnl)),
              !.balance = Add(@, pnl)]

\* deduct_fee that forgets "self.balance -= fee"
deduct_fee_keeps_balance(w, fee) ==
    [w EXCEPT !.available = Sub(@, fee),
              !.total_fees_paid = Add(@, fee)]

deduct_fee(w, fee) ==
    [w EXCEPT !.available = Sub(@, fee),
              !.balance = Sub(@, fee),
              !.total_fees_paid = Add(@, fee)]

(***************************************************************************)
(* PaperPosition                                                           *)
(***************************************************************************)
calculate_unrealized_pnl(p, current_price) ==
    IF p.side = "LONG"
    THEN Mul(Sub(current_price, p.entry_price), p.quantity)
    ELSE Mul(Neg(Sub(current_price, p.entry_price)), p.quantity)

\* PaperPosition.close: the position after it (its return value is
\* calculate_unrealized_pnl(p, exit_price))
close(p, exit_price, reason) ==
    [p EXCEPT !.status = "CLOSED",
              !.close_reason = reason,
              !.exit_price = exit_price,
              !.realized_pnl = calculate_unrealized_pnl(p, exit_price)]

\* PaperPosition.partial_close, its return value
partial_pnl(p, close_quantity, exit_price) ==
    Mul(calculate_unrealized_pnl(p, exit_price), Div(close_quantity, p.quantity))

\* PaperPosition.partial_close, "if self.quantity == 0"
fully_closed(p, exit_price) ==
    IF p.quantity = Zero
    THEN [p EXCEPT !.status = "CLOSED", !.close_reason = "MANUAL",
                   !.exit_price = exit_price]
    ELSE p

\* PaperPosition.partial_close: the position after it; callers pass
\* close_quantity <= quantity
partial_close(p, close_quantity, exit_price) ==
    fully_closed(
        [p EXCEPT !.quantity = Sub(@, close_quantity),
                  !.margin = Mul(@, Sub(One, Div(close_quantity, p.quantity))),
                  !.realized_pnl = Add(@, partial_pnl(p, close_quantity, exit_price))],
        exit_price)

(***************************************************************************)
(* PaperTradingEngine. The engine state is handled as one record, so that  *)
(* the nested calls of a handler compose; the values a method computes     *)
(* once and uses several times are parameters of a helper operator.        *)
(***************************************************************************)
Engine == [wallet |-> wallet, orders |-> orders, positions |-> positions,
           trade_history |-> trade_history, pending_orders |-> pending_orders]

OppositeSide(side) == IF side = "LONG" THEN "SHORT" ELSE "LONG"

\* the ids of the OPEN positions of a symbol and side
OpenIds(ps, symbol, side) ==
    {i \in 1..Len(ps) : ps[i].symbol = symbol /\ ps[i].side = side
                        /\ ps[i].status = "OPEN"}

Min(S) == CHOOSE x \in S : \A y \in S : x <= y

\* _find_position: the first match in insertion order, NoId for None
find_position(ps, symbol, side) ==
    IF OpenIds(ps, symbol, side) = {} THEN NoId
    ELSE Min(OpenIds(ps, symbol, side))

TradeRecord(order_id, position_id, symbol, side, action, quantity, price, notional, fee, pnl) ==
    [order_id |-> order_id, position_id |-> position_id, symbol |-> symbol,
     side |-> side, action |-> action, quantity |-> quantity, price |-> price,
     notional |-> notional, fee |-> fee, pnl |-> pnl]

action_map(reason) ==
    CASE reason = "MANUAL" -> "CLOSE"
      [] reason = "STOPLOSS" -> "SL_TRIGGERED"
      [] reason = "TAKEPROFIT" -> "TP_TRIGGERED"
      [] reason = "LIQUIDATION" -> "LIQUIDATION"
      [] OTHER -> "CLOSE"

\* _close_position_internal that does not add the exit fee to total_fees_paid
close_settle_fee_unrecorded(e, pid, p, exit_price, reason, exit_notional, exit_fee, net_pnl) ==
    [e EXCEPT
       !.positions = [@ EXCEPT ![pid] = close(p, exit_price, reason)],
       !.wallet = realize_pnl(@, net_pnl, p.margin),
       !.trade_history = Append(@,
           TradeRecord(NoId, pid, p.symbol, p.side, action_map(reason),
                       p.quantity, exit_price, exit_notional, exit_fee,
                       net_pnl))]

\* _close_position_internal, from "net_pnl = pnl - exit_fee" on
close_settle(e, pid, p, exit_price, reason, exit_notional, exit_fee, net_pnl) ==
    [e EXCEPT
       !.positions = [@ EXCEPT ![pid] = close(p, exit_price, reason)],
       !.wallet = [realize_pnl(@, net_pnl, p.margin)
                     EXCEPT !.total_fees_paid = Add(@, exit_fee)],
       !.trade_history = Append(@,
           TradeRecord(NoId, pid, p.symbol, p.side, action_map(reason),
                       p.quantity, exit_price, exit_notional, exit_fee,
                       net_pnl))]

\* _close_position_internal that realizes the gross pnl
close_fee_gross(e, pid, p, exit_price, reason, pnl, exit_notional, exit_fee) ==
    close_settle(e, pid, p, exit_price, reason, exit_notional, exit_fee, pnl)

close_fee(e, pid, p, exit_price, reason, pnl, exit_notional, exit_fee) ==
    close_settle(e, pid, p, exit_price, reason, exit_notional, exit_fee,
                 Sub(pnl, exit_fee))

close_position_internal(e, pid, exit_price, reason) ==
    close_fee(e, pid, e.positions[pid], exit_price, reason,
              calculate_unrealized_pnl(e.positions[pid], exit_price),
              Mul(e.positions[pid].quantity, exit_price),
              Mul(Mul(e.positions[pid].quantity, exit_price), fee_rate))

PaperPosition(symbol, side, quantity, entry_price, leverage, margin) ==
    [symbol |-> symbol, side |-> side, status |-> "OPEN",
     quantity |-> quantity, entry_price |-> entry_price,
     leverage |-> leverage, margin |-> margin, realized_pnl |-> Zero,
     stoploss_price |-> None, takeprofit_price |-> None,
     close_reason |-> "None", exit_price |-> None, opened_at |-> now]

\* The position handlers return the engine and the position they hand back
\* (NoId for None).
\* _create_position that takes the notional as the margin
create_position_unlevered(e, order, execution_price) ==
    [e |-> [e EXCEPT !.positions = Append(@,
                PaperPosition(order.symbol, order.side, order.quantity,
                              execution_price, order.leverage,
                              Mul(order.quantity, execution_price)))],
     pid |-> Len(e.positions) + 1]

create_position(e, order, execution_price) ==
    [e |-> [e EXCEPT !.positions = Append(@,
                PaperPosition(order.symbol, order.side, order.quantity,
                              execution_price, order.leverage,
                              order.margin_used))],
     pid |-> Len(e.positions) + 1]

\* _average_into_position that takes the plain mean of the two prices
average_into_position_plain_mean(e, pid, order, execution_price) ==
    [e |-> [e EXCEPT !.positions = [@ EXCEPT ![pid] =
               [@ EXCEPT
                  !.quantity = Add(@, order.quantity),
                  !.entry_price = Div(Add(@, execution_price), Dec(2)),
                  !.margin = Add(@, order.margin_used)]]],
     pid |-> pid]

average_into_position(e, pid, order, execution_price) ==
    [e |-> [e EXCEPT !.positions = [@ EXCEPT ![pid] =
               [@ EXCEPT
                  !.quantity = Add(@, order.quantity),
                  !.entry_price =
                      Div(Add(Mul(e.positions[pid].quantity, @),
                              Mul(order.quantity, execution_price)),
                          Add(e.positions[pid].quantity, order.quantity)),
                  !.margin = Add(@, order.margin_used)]]],
     pid |-> pid]

\* _net_positions, "elif order.quantity < existing.quantity"
net_partial(e, pid, order, execution_price, pnl) ==
    [e |-> [e EXCEPT
              !.positions = [@ EXCEPT ![pid] =
                  partial_close(@, order.quantity, execution_price)],
              !.wallet = [release_margin(@, order.margin_used)
                            EXCEPT !.balance = Add(@, pnl),
                                   !.available = Add(@, pnl),
                                   !.realized_pnl = Add(@, pnl)]],
     pid |-> pid]

\* _net_positions, "else": e2 is the engine after the existing position closed
\* _net_positions, "else", opening the new position for the whole order
net_flip_whole_order(e2, order, execution_price, remainder) ==
    [e |-> [e2 EXCEPT !.positions = Append(@,
              PaperPosition(order.symbol, order.side, order.quantity,
                            execution_price, order.leverage,
                            Div(Mul(order.quantity, execution_price),
                                Dec(order.leverage))))],
     pid |-> Len(e2.positions) + 1]

net_flip(e2, order, execution_price, remainder) ==
    [e |-> [e2 EXCEPT !.positions = Append(@,
              PaperPosition(order.symbol, order.side, remainder,
                            execution_price, order.leverage,
                            Div(Mul(remainder, execution_price),
                                Dec(order.leverage))))],
     pid |-> Len(e2.positions) + 1]

\* _net_positions without its "order.quantity == existing.quantity" branch
net_positions_no_equal_branch(e, pid, order, execution_price) ==
    IF Lt(order.quantity, e.positions[pid].quantity)
    THEN net_partial(e, pid, order, execution_price,
                     partial_pnl(e.positions[pid], order.quantity, execution_price))
    ELSE net_flip(close_position_internal(e, pid, execution_price, "MANUAL"),
                  order, execution_price,
                  Sub(order.quantity, e.positions[pid].quantity))

net_positions(e, pid, order, execution_price) ==
    IF order.quantity = e.positions[pid].quantity
    THEN [e |-> close_position_internal(e, pid, execution_price, "MANUAL"),
          pid |-> NoId]
    ELSE IF Lt(order.quantity, e.positions[pid].quantity)
    THEN net_partial(e, pid, order, execution_price,
                     partial_pnl(e.positions[pid], order.quantity, execution_price))
    ELSE net_flip(close_position_internal(e, pid, execution_price, "MANUAL"),
                  order, execution_price,
                  Sub(order.quantity, e.positions[pid].quantity))

\* _handle_position_for_order that never looks at the opposite side
handle_found_ignores_opposite(e, order, execution_price, existing, opposite) ==
    IF existing = NoId
    THEN create_position(e, order, execution_price)
    ELSE average_into_position(e, existing, order, execution_price)

handle_found(e, order, execution_price, existing, opposite) ==
    IF existing = NoId /\ opposite = NoId
    THEN create_position(e, order, execution_price)
    ELSE IF existing # NoId
    THEN average_into_position(e, existing, order, execution_price)
    ELSE net_positions(e, opposite, order, execution_price)

handle_position_for_order(e, order, execution_price) ==
    handle_found(e, order, execution_price,
                 find_position(e.positions, order.symbol, order.side),
                 find_position(e.positions, order.symbol, OppositeSide(order.side)))

PaperOrder(symbol, side, order_type, quantity, leverage, price, risk, reduce_only, margin_used, expires_at) ==
    [symbol |-> symbol, side |-> side, order_type |-> order_type,
     quantity |-> quantity, leverage |-> leverage, status |-> "PENDING",
     price |-> price, filled_price |-> None,
     stoploss_price |-> risk[1], takeprofit_price |-> risk[2],
     reduce_only |-> reduce_only, fee_paid |-> Zero,
     margin_used |-> margin_used, expires_at |-> expires_at,
     position_id |-> NoId]

\* PaperOrder.fill
fill(order, price, position_id) ==
    [order EXCEPT !.status = "FILLED", !.filled_price = price,
                  !.position_id = position_id]

\* PaperOrder.cancel
cancel(order) == [order EXCEPT !.status = "CANCELLED"]

\* self.orders[order.order_id] = order
put_order(os, oid, order) ==
    IF oid > Len(os) THEN Append(os, order) ELSE [os EXCEPT ![oid] = order]

\* Python truth of an optional Decimal: None and 0 are false
Truthy(x) == x # None /\ x # Zero

\* _execute_order, "Set SL/TP on position"
set_risk(ps, pid, order) ==
    IF pid = NoId THEN ps
    ELSE [ps EXCEPT ![pid] =
            [@ EXCEPT
               !.stoploss_price =
                   IF Truthy(order.stoploss_price)
                   THEN order.stoploss_price ELSE @,
               !.takeprofit_price =
                   IF Truthy(order.takeprofit_price)
                   THEN order.takeprofit_price ELSE @]]

\* _execute_order after _handle_position_for_order returned h
execute_filled(h, oid, order, execution_price, notional, fee) ==
    [h.e EXCEPT
       !.positions = set_risk(@, h.pid, order),
       !.orders = put_order(@, oid, fill(order, execution_price, h.pid)),
       !.trade_history = Append(@,
           TradeRecord(oid, h.pid, order.symbol, order.side, "OPEN",
                       order.quantity, execution_price, notional, fee, None))]

\* _execute_order from "order.fee_paid = fee" on; e holds the wallet after
\* the margin was locked and the fee deducted
execute_accepted(e, oid, order, execution_price, notional, fee) ==
    execute_filled(handle_position_for_order(e, order, execution_price),
                   oid, order, execution_price, notional, fee)

\* _execute_order comparing available with the margin alone
execute_costs_fee_unchecked(e, oid, order, execution_price, notional, required_margin, fee, same, opp) ==
    IF order.order_type = "MARKET"
    THEN IF order.reduce_only /\ same = NoId /\ opp # NoId
         THEN [e |-> [close_position_internal(e, opp, execution_price, "MANUAL")
                        EXCEPT !.orders = put_order(@, oid,
                                   fill(order, execution_price, opp))],
               result |-> "ok"]
         ELSE IF order.reduce_only /\ same = NoId
         THEN [e |-> e, result |-> "InvalidOrder"]
         ELSE IF Lt(e.wallet.available, required_margin)
         THEN [e |-> [e EXCEPT !.orders = put_order(@, oid,
                          [order EXCEPT !.status = "REJECTED"])],
               result |-> "InsufficientMargin"]
         ELSE [e |-> execute_accepted(
                         [e EXCEPT !.wallet =
                              deduct_fee(lock_margin(@, required_margin), fee)],
                         oid,
                         [order EXCEPT !.fee_paid = fee,
                                       !.margin_used = required_margin],
                         execution_price, notional, fee),
               result |-> "ok"]
    ELSE [e |-> execute_accepted(
                    [e EXCEPT !.wallet = deduct_fee(@, fee)],
                    oid,
                    [order EXCEPT !.fee_paid = fee,
                                  !.margin_used = required_margin],
                    execution_price, notional, fee),
          result |-> "ok"]

\* _execute_order with its costs computed: the engine after it and how it
\* ended ("ok" or the exception raised)
execute_costs(e, oid, order, execution_price, notional, required_margin, fee, same, opp) ==
    IF order.order_type = "MARKET"
    THEN IF order.reduce_only /\ same = NoId /\ opp # NoId
         THEN [e |-> [close_position_internal(e, opp, execution_price, "MANUAL")
                        EXCEPT !.orders = put_order(@, oid,
                                   fill(order, execution_price, opp))],
               result |-> "ok"]
         ELSE IF order.reduce_only /\ same = NoId
         THEN [e |-> e, result |-> "InvalidOrder"]
         ELSE IF Lt(e.wallet.available, Add(required_margin, fee))
         THEN [e |-> [e EXCEPT !.orders = put_order(@, oid,
                          [order EXCEPT !.status = "REJECTED"])],
               result |-> "InsufficientMargin"]
         ELSE [e |-> execute_accepted(
                         [e EXCEPT !.wallet =
                              deduct_fee(lock_margin(@, required_margin), fee)],
                         oid,
                         [order EXCEPT !.fee_paid = fee,
                                       !.margin_used = required_margin],
                         execution_price, notional, fee),
               result |-> "ok"]
    ELSE [e |-> execute_accepted(
                    [e EXCEPT !.wallet = deduct_fee(@, fee)],
                    oid,
                    [order EXCEPT !.fee_paid = fee,
                                  !.margin_used = required_margin],
                    execution_price, notional, fee),
          result |-> "ok"]

execute_notional(e, oid, order, execution_price, notional) ==
    execute_costs(e, oid, order, execution_price, notional,
                  Div(notional, Dec(order.leverage)),
                  Mul(notional, fee_rate),
                  find_position(e.positions, order.symbol, order.side),
                  find_position(e.positions, order.symbol,
                                OppositeSide(order.side)))

execute_order(e, oid, order, execution_price) ==
    execute_notional(e, oid, order, execution_price,
                     Mul(order.quantity, execution_price))

\* an index that keeps the ids of the orders that have left PENDING
remove_keeps_the_id(xs, x) == xs

\* list.remove: the list without the first occurrence of x
remove(xs, x) ==
    IF \E i \in 1..Len(xs) : xs[i] = x
    THEN SubSeq(xs, 1, Min({i \in 1..Len(xs) : xs[i] = x}) - 1)
         \o SubSeq(xs, Min({i \in 1..Len(xs) : xs[i] = x}) + 1, Len(xs))
    ELSE xs

\* the order in which the symbols of pending_orders are visited
SymbolOrder == <<"BTCUSDT">>

\* check_limit_orders, "Check fill condition"
should_fill(order, current_price) ==
    IF order.side = "LONG" /\ Truthy(order.price)
    THEN Le(current_price, order.price)
    ELSE IF order.side = "SHORT" /\ Truthy(order.price)
    THEN Le(order.price, current_price)
    ELSE FALSE

\* the body of the loop filling the order at the current price
check_limit_order_at_current_price(e, symbol, order_id, order, current_price) ==
    IF order.status # "PENDING"
    THEN e
    ELSE IF order.expires_at # NoTime /\ now > order.expires_at
    THEN [e EXCEPT
            !.orders = [@ EXCEPT ![order_id] = [@ EXCEPT !.status = "EXPIRED"]],
            !.wallet = release_margin(@, order.margin_used),
            !.pending_orders = [@ EXCEPT ![symbol] = remove(@, order_id)]]
    ELSE IF should_fill(order, current_price)
    THEN [execute_order(e, order_id, order, current_price).e EXCEPT
            !.pending_orders = [@ EXCEPT ![symbol] = remove(@, order_id)]]
    ELSE e

\* the body of the loop expiring an order without releasing its margin
check_limit_order_expiry_keeps_margin(e, symbol, order_id, order, current_price) ==
    IF order.status # "PENDING"
    THEN e
    ELSE IF order.expires_at # NoTime /\ now > order.expires_at
    THEN [e EXCEPT
            !.orders = [@ EXCEPT ![order_id] = [@ EXCEPT !.status = "EXPIRED"]],
            !.pending_orders = [@ EXCEPT ![symbol] = remove(@, order_id)]]
    ELSE IF should_fill(order, current_price)
    THEN [execute_order(e, order_id, order, order.price).e EXCEPT
            !.pending_orders = [@ EXCEPT ![symbol] = remove(@, order_id)]]
    ELSE e

\* check_limit_orders, the body of the loop over list(order_ids), for one id
check_limit_order(e, symbol, order_id, order, current_price) ==
    IF order.status # "PENDING"
    THEN e
    ELSE IF order.expires_at # NoTime /\ now > order.expires_at
    THEN [e EXCEPT
            !.orders = [@ EXCEPT ![order_id] = [@ EXCEPT !.status = "EXPIRED"]],
            !.wallet = release_margin(@, order.margin_used),
            !.pending_orders = [@ EXCEPT ![symbol] = remove(@, order_id)]]
    ELSE IF should_fill(order, current_price)
    THEN [execute_order(e, order_id, order, order.price).e EXCEPT
            !.pending_orders = [@ EXCEPT ![symbol] = remove(@, order_id)]]
    ELSE e

RECURSIVE check_symbol_orders(_, _, _, _)
check_symbol_orders(e, symbol, order_ids, current_price) ==
    IF order_ids = <<>> THEN e
    ELSE check_symbol_orders(
             check_limit_order(e, symbol, Head(order_ids),
                               e.orders[Head(order_ids)], current_price),
             symbol, Tail(order_ids), current_price)

\* check_limit_orders: the loop over list(self.pending_orders.items())
RECURSIVE check_limit_orders(_, _)
check_limit_orders(e, symbols) ==
    IF symbols = <<>> THEN e
    ELSE check_limit_orders(
             check_symbol_orders(e, Head(symbols),
                                 e.pending_orders[Head(symbols)],
                                 get_price(Head(symbols))),
             Tail(symbols))

\* close_position, "Partial close", releasing the ratio of the margin that
\* is left instead of the margin before the close
close_partial_of_remaining_margin(e, position_id, p, p2, quantity, current_price, pnl) ==
    [e EXCEPT
       !.positions = [@ EXCEPT ![position_id] = p2],
       !.wallet = realize_pnl(@, pnl,
           Mul(p2.margin, Div(quantity, Add(p2.quantity, quantity)))),
       !.trade_history = Append(@,
           TradeRecord(NoId, position_id, p.symbol, p.side, "PARTIAL_CLOSE",
                       quantity, current_price, Mul(quantity, current_price),
                       Zero, pnl))]

\* close_position, "Partial close": p2 is the position after partial_close
close_partial(e, position_id, p, p2, quantity, current_price, pnl) ==
    [e EXCEPT
       !.positions = [@ EXCEPT ![position_id] = p2],
       !.wallet = realize_pnl(@, pnl,
           Div(Mul(p2.margin, Div(quantity, Add(p2.quantity, quantity))),
               Sub(One, Div(quantity, Add(p2.quantity, quantity))))),
       !.trade_history = Append(@,
           TradeRecord(NoId, position_id, p.symbol, p.side, "PARTIAL_CLOSE",
                       quantity, current_price, Mul(quantity, current_price),
                       Zero, pnl))]

\* close_position on an OPEN position
close_position(e, position_id, p, quantity, current_price) ==
    IF quantity = None \/ Le(p.quantity, quantity)
    THEN close_position_internal(e, position_id, current_price, "MANUAL")
    ELSE close_partial(e, position_id, p,
                       partial_close(p, quantity, current_price),
                       quantity, current_price,
                       partial_pnl(p, quantity, current_price))

\* list_open_orders(symbol=None): the ids of the orders it returns
list_open_orders(os) == {oid \in 1..Len(os) : os[oid].status = "PENDING"}

(***************************************************************************)
(* SLTPMonitor                                                             *)
(***************************************************************************)
\* _check_position_triggers: the close reason of the trigger that fires,
\* "None" when none does
\* _check_position_triggers with the stop-loss checked first
check_position_triggers_sl_first(p, current_price) ==
    IF Truthy(p.stoploss_price)
       /\ \/ p.side = "LONG" /\ Le(current_price, p.stoploss_price)
          \/ p.side = "SHORT" /\ Le(p.stoploss_price, current_price)
    THEN "STOPLOSS"
    ELSE IF Truthy(p.takeprofit_price)
            /\ \/ p.side = "LONG" /\ Le(p.takeprofit_price, current_price)
               \/ p.side = "SHORT" /\ Le(current_price, p.takeprofit_price)
    THEN "TAKEPROFIT"
    ELSE "None"

check_position_triggers(p, current_price) ==
    IF Truthy(p.takeprofit_price)
       /\ \/ p.side = "LONG" /\ Le(p.takeprofit_price, current_price)
          \/ p.side = "SHORT" /\ Le(current_price, p.takeprofit_price)
    THEN "TAKEPROFIT"
    ELSE IF Truthy(p.stoploss_price)
            /\ \/ p.side = "LONG" /\ Le(current_price, p.stoploss_price)
               \/ p.side = "SHORT" /\ Le(p.stoploss_price, current_price)
    THEN "STOPLOSS"
    ELSE "None"

\* the snapshot check_all_positions takes: the OPEN positions, in order
RECURSIVE open_from(_, _)
open_from(ps, i) ==
    IF i > Len(ps) THEN <<>>
    ELSE IF ps[i].status = "OPEN" THEN <<i>> \o open_from(ps, i + 1)
    ELSE open_from(ps, i + 1)

open_positions(ps) == open_from(ps, 1)

\* the body of the loop acting on take-profit triggers only
check_position_skips_stoploss(e, pid, current_price, reason) ==
    IF reason \in {"None", "STOPLOSS"} THEN e
    ELSE close_position_internal(e, pid, current_price, reason)

\* check_all_positions, the body of the loop for one position
check_position(e, pid, current_price, reason) ==
    IF reason = "None" THEN e
    ELSE close_position_internal(e, pid, current_price, reason)

\* check_all_positions: the loop over the snapshot
RECURSIVE check_positions(_, _)
check_positions(e, pids) ==
    IF pids = <<>> THEN e
    ELSE check_positions(
             check_position(e, Head(pids),
                 get_price(e.positions[Head(pids)].symbol),
                 check_position_triggers(e.positions[Head(pids)],
                     get_price(e.positions[Head(pids)].symbol))),
             Tail(pids))

\* check_all_positions: the loop over the snapshot pids with the prices
\* that get_prices_batch returned
RECURSIVE check_snapshot(_, _, _)
check_snapshot(e, pids, fetched) ==
    IF pids = <<>> THEN e
    ELSE check_snapshot(
             check_position(e, Head(pids),
                 fetched[e.positions[Head(pids)].symbol],
                 check_position_triggers(e.positions[Head(pids)],
                     fetched[e.positions[Head(pids)].symbol])),
             Tail(pids), fetched)

(***************************************************************************)
(* FundingMonitor                                                          *)
(***************************************************************************)
FUNDING_INTERVAL_HOURS == 8

\* position.side.value
side_value(position) ==
    IF engine_kind = "Aliased" THEN position.side ELSE "AttributeError"

FundingPayment(position_id, position, funding_rate, position_value, payment_amount, payment_time, mark_price) ==
    [position_id |-> position_id, symbol |-> position.symbol,
     side |-> position.side, funding_rate |-> funding_rate,
     position_value |-> position_value, payment_amount |-> payment_amount,
     payment_time |-> payment_time, mark_price |-> mark_price,
     quantity |-> position.quantity]

\* _calculate_funding_payment for a position whose side has a value
calculate_funding_payment(pid, position, funding_rate, mark_price, funding_time) ==
    FundingPayment(pid, position, funding_rate,
        Mul(position.quantity, mark_price),
        IF Lt(Zero, funding_rate)
        THEN IF side_value(position) = "LONG"
             THEN Neg(Mul(Mul(position.quantity, mark_price), funding_rate))
             ELSE Mul(Mul(position.quantity, mark_price), funding_rate)
        ELSE IF side_value(position) = "LONG"
             THEN Mul(Mul(position.quantity, mark_price), funding_rate)
             ELSE Neg(Mul(Mul(position.quantity, mark_price), funding_rate)),
        funding_time, mark_price)

\* _apply_funding_payment
apply_funding_payment(m, payment) ==
    [m EXCEPT !.wallet.balance = Add(@, payment.payment_amount),
              !.payments = Append(@, payment)]

\* dict.get and dict item assignment on _last_funding_time, a sequence of
\* (position_id, time) pairs with one pair for a position at most
last_get(last, pid) ==
    IF \E k \in 1..Len(last) : last[k][1] = pid
    THEN last[CHOOSE k \in 1..Len(last) : last[k][1] = pid][2]
    ELSE NoTime

last_set(last, pid, t) ==
    IF \E k \in 1..Len(last) : last[k][1] = pid
    THEN [k \in 1..Len(last) |->
             IF last[k][1] = pid THEN <<pid, t>> ELSE last[k]]
    ELSE Append(last, <<pid, t>>)

\* _get_funding_times_between: the funding hours t with start < t <= end,
\* ascending
RECURSIVE funding_times_between(_, _)
funding_times_between(start, end) ==
    IF start >= end THEN <<>>
    ELSE IF (start + 1) % FUNDING_INTERVAL_HOURS = 0
    THEN <<start + 1>> \o funding_times_between(start + 1, end)
    ELSE funding_times_between(start + 1, end)

\* _process_position_funding, the loop over funding_times
RECURSIVE settle_funding_times(_, _, _, _, _, _, _)
settle_funding_times(m, pid, position, last_processed, funding_times, funding_rate, mark_price) ==
    IF funding_times = <<>> THEN m
    ELSE IF last_processed # NoTime /\ Head(funding_times) <= last_processed
    THEN settle_funding_times(m, pid, position, last_processed,
             Tail(funding_times), funding_rate, mark_price)
    ELSE settle_funding_times(
             [apply_funding_payment(m,
                  calculate_funding_payment(pid, position, funding_rate,
                      mark_price, Head(funding_times)))
                EXCEPT !.last_funding_time =
                           last_set(@, pid, Head(funding_times))],
             pid, position, last_processed, Tail(funding_times),
             funding_rate, mark_price)

\* _process_position_funding; with the PaperTradingEngine the comparison of
\* the naive opened_at with the aware clock raises TypeError, which
\* _process_funding logs
process_position_funding(m, pid, position, last_processed, funding_rate, mark_price) ==
    IF engine_kind # "Aliased" THEN m
    ELSE settle_funding_times(m, pid, position, last_processed,
             funding_times_between(
                 IF last_processed # NoTime THEN last_processed
                 ELSE position.opened_at, now),
             funding_rate, mark_price)

\* _process_funding: the loop over list_open_positions()
RECURSIVE process_funding(_, _, _, _)
process_funding(m, pids, funding_rate, mark_price) ==
    IF pids = <<>> THEN m
    ELSE process_funding(
             process_position_funding(m, Head(pids), positions[Head(pids)],
                 last_get(m.last_funding_time, Head(pids)),
                 funding_rate, mark_price),
             Tail(pids), funding_rate, mark_price)

\* process_funding_now: the loop over the positions; with the
\* PaperTradingEngine position.side.value raises AttributeError, which the
\* loop logs
RECURSIVE process_funding_now(_, _, _, _)
process_funding_now(m, pids, funding_rate, mark_price) ==
    IF pids = <<>> THEN m
    ELSE process_funding_now(
             IF side_value(positions[Head(pids)]) = "AttributeError" THEN m
             ELSE apply_funding_payment(m,
                      calculate_funding_payment(Head(pids),
                          positions[Head(pids)], funding_rate, mark_price,
                          now)),
             Tail(pids), funding_rate, mark_price)

(***************************************************************************)
(* LiquidationEngine                                                       *)
(***************************************************************************)
DEFAULT_MMR == Frac(5, 1000)

DEFAULT_LIQ_FEE == Frac(5, 1000)

DEFAULT_WARNING_THRESHOLD == Frac(15, 10)

\* get_margin_status: margin_ratio
margin_ratio(position, mark_price) ==
    Div(Add(Div(Mul(position.quantity, position.entry_price),
                Dec(position.leverage)),
            IF side_value(position) = "LONG"
            THEN Mul(position.quantity, Sub(mark_price, position.entry_price))
            ELSE Mul(position.quantity, Sub(position.entry_price, mark_price))),
        Mul(Mul(position.quantity, position.entry_price), DEFAULT_MMR))

\* the LiquidationEngine and what it writes to
\* _liquidate_position: engine.close_position takes no close_price and no
\* reason, so the call raises TypeError and the except branch deletes the
\* position; the fee leaves the balance
liquidate_position(l, pid, position, mark_price) ==
    [l EXCEPT !.positions[pid].status = "DELETED",
              !.wallet.balance =
                  Sub(@, Mul(Mul(position.quantity, mark_price),
                             DEFAULT_LIQ_FEE)),
              !.liquidations =
                  Append(@, [position_id |-> pid,
                             mark_price_at_liq |-> mark_price,
                             liquidation_fee |->
                                 Mul(Mul(position.quantity, mark_price),
                                     DEFAULT_LIQ_FEE)]),
              !.warned_positions = @ \ {pid}]

\* _warn_margin without the test of _warned_positions
warn_margin_every_tick(l, pid) ==
    [l EXCEPT !.warned_positions = @ \cup {pid},
              !.warnings = Append(@, pid)]

\* _warn_margin
warn_margin(l, pid) ==
    IF pid \in l.warned_positions THEN l
    ELSE [l EXCEPT !.warned_positions = @ \cup {pid},
                   !.warnings = Append(@, pid)]

\* _check_positions, the body of the loop; with the PaperTradingEngine
\* position.side.value raises AttributeError in get_margin_status, which
\* the loop logs
check_margin(l, pid, position, mark_price) ==
    IF side_value(position) = "AttributeError" THEN l
    ELSE IF Le(margin_ratio(position, mark_price), One)
    THEN liquidate_position(l, pid, position, mark_price)
    ELSE IF Lt(margin_ratio(position, mark_price), DEFAULT_WARNING_THRESHOLD)
    THEN warn_margin(l, pid)
    ELSE [l EXCEPT !.warned_positions = @ \ {pid}]

\* _check_positions: the loop over list_open_positions()
RECURSIVE check_margins(_, _, _)
check_margins(l, pids, mark_price) ==
    IF pids = <<>> THEN l
    ELSE check_margins(
             check_margin(l, Head(pids), positions[Head(pids)], mark_price),
             Tail(pids), mark_price)

(***************************************************************************)
(* export_state, import_state.  A str is the tagged digits of the Decimal  *)
(* it was made from, an ISO string the tagged time.                        *)
(***************************************************************************)
\* str(Decimal) and Decimal(str)
str(x) == <<"str", x[1], x[2]>>

Decimal(text) == <<text[2], text[3]>>

\* str(x) if x else None
str_if(x) == IF Truthy(x) THEN str(x) ELSE None

\* Decimal(data[k]) if data.get(k) else None
Decimal_if(text) == IF text # None THEN Decimal(text) ELSE None

\* datetime.isoformat() if set else None, and parse_dt
isoformat(t) == IF t # NoTime THEN <<"iso", t>> ELSE None

parse_dt(text) == IF text # None THEN text[2] ELSE NoTime

\* PaperWallet.to_dict, PaperWallet.from_dict
wallet_to_dict(w) ==
    [balance |-> str(w.balance), available |-> str(w.available),
     locked_margin |-> str(w.locked_margin),
     realized_pnl |-> str(w.realized_pnl),
     total_fees_paid |-> str(w.total_fees_paid)]

wallet_from_dict(data) ==
    [balance |-> Decimal(data.balance), available |-> Decimal(data.available),
     locked_margin |-> Decimal(data.locked_margin),
     realized_pnl |-> Decimal(data.realized_pnl),
     total_fees_paid |-> Decimal(data.total_fees_paid)]

\* PaperOrder.to_dict, PaperOrder.from_dict
order_to_dict(o) ==
    [o EXCEPT !.quantity = str(@), !.price = str_if(@),
              !.filled_price = str_if(@), !.stoploss_price = str_if(@),
              !.takeprofit_price = str_if(@), !.fee_paid = str(@),
              !.margin_used = str(@), !.expires_at = isoformat(@)]

order_from_dict(data) ==
    [data EXCEPT !.quantity = Decimal(@), !.price = Decimal_if(@),
                 !.filled_price = Decimal_if(@),
                 !.stoploss_price = Decimal_if(@),
                 !.takeprofit_price = Decimal_if(@), !.fee_paid = Decimal(@),
                 !.margin_used = Decimal(@), !.expires_at = parse_dt(@)]

\* PaperPosition.to_dict, PaperPosition.from_dict
position_to_dict(q) ==
    [q EXCEPT !.quantity = str(@), !.entry_price = str(@),
              !.margin = str(@), !.realized_pnl = str(@),
              !.stoploss_price = str_if(@), !.takeprofit_price = str_if(@),
              !.opened_at = isoformat(@), !.exit_price = str_if(@)]

position_from_dict(data) ==
    [data EXCEPT !.quantity = Decimal(@), !.entry_price = Decimal(@),
                 !.margin = Decimal(@), !.realized_pnl = Decimal(@),
                 !.stoploss_price = Decimal_if(@),
                 !.takeprofit_price = Decimal_if(@),
                 !.opened_at = parse_dt(@), !.exit_price = Decimal_if(@)]

\* TradeRecord.to_dict, TradeRecord.from_dict
trade_to_dict(t) ==
    [t EXCEPT !.quantity = str(@), !.price = str(@), !.notional = str(@),
              !.fee = str(@), !.pnl = IF @ # None THEN str(@) ELSE None]

trade_from_dict(data) ==
    [data EXCEPT !.quantity = Decimal(@), !.price = Decimal(@),
                 !.notional = Decimal(@), !.fee = Decimal(@),
                 !.pnl = Decimal_if(@)]

export_state(e) ==
    [wallet |-> wallet_to_dict(e.wallet),
     orders |-> [k \in 1..Len(e.orders) |-> order_to_dict(e.orders[k])],
     positions |->
         [k \in 1..Len(e.positions) |-> position_to_dict(e.positions[k])],
     trade_history |->
         [k \in 1..Len(e.trade_history) |->
             trade_to_dict(e.trade_history[k])],
     pending_orders |-> e.pending_orders]

import_state(state) ==
    [wallet |-> wallet_from_dict(state.wallet),
     orders |->
         [k \in 1..Len(state.orders) |-> order_from_dict(state.orders[k])],
     positions |->
         [k \in 1..Len(state.positions) |->
             position_from_dict(state.positions[k])],
     trade_history |->
         [k \in 1..Len(state.trade_history) |->
             trade_from_dict(state.trade_history[k])],
     pending_orders |-> state.pending_orders]

(***************************************************************************)
(* The state machine.                                                      *)
(***************************************************************************)
\* PaperTradingEngine.__init__ and the feed's prices
InitEngine ==
    /\ wallet = PaperWallet(InitialBalance, InitialBalance)
    /\ orders = <<>>
    /\ positions = <<>>
    /\ trade_history = <<>>
    /\ pending_orders = [s \in Symbols |-> <<>>]
    /\ prices = [s \in Symbols |-> Dec(200)]
    /\ now = 0
    /\ result = "ok"

\* FundingMonitor.__init__, LiquidationEngine.__init__, SLTPMonitor.__init__
InitMonitors ==
    /\ payments = <<>>
    /\ last_funding_time = <<>>
    /\ warned_positions = {}
    /\ warnings = <<>>
    /\ liquidations = <<>>
    /\ running = FALSE
    /\ thread = "none"
    /\ tick = None
    /\ stop_call = "none"
    /\ orphan = [at |-> "none", tick |-> None]

Init ==
    /\ InitEngine
    /\ feed = "mock"
    /\ engine_kind = "PaperTradingEngine"
    /\ fee_rate = DEFAULT_FEE_RATE
    /\ InitMonitors

SetEngine(e) ==
    /\ wallet' = e.wallet
    /\ orders' = e.orders
    /\ positions' = e.positions
    /\ trade_history' = e.trade_history
    /\ pending_orders' = e.pending_orders

\* the engine after a call that ended as r.result
Returned(r) == SetEngine(r.e) /\ result' = r.result

\* a raise (or an early return) at a point where the call has written nothing
Raise(exception) ==
    /\ result' = exception
    /\ UNCHANGED <<wallet, orders, positions, trade_history, pending_orders>>

\* create_market_order
CreateMarketOrder(symbol, side, quantity, leverage, risk, reduce_only) ==
    /\ Len(orders) < MaxOrders
    /\ IF upper(side) \notin {"LONG", "SHORT"} THEN Raise("InvalidOrder")
       ELSE IF ~is_valid_symbol(symbol) THEN Raise("SymbolNotFound")
       ELSE IF ~validate_quantity(symbol, quantity) THEN Raise("InvalidOrder")
       ELSE IF ~validate_leverage(symbol, leverage) THEN Raise("InvalidOrder")
       ELSE Returned(execute_order(Engine, Len(orders) + 1,
                PaperOrder(symbol, upper(side), "MARKET", quantity, leverage,
                           None, risk, reduce_only, Zero, NoTime),
                get_price(symbol)))
    /\ UNCHANGED <<prices, now>>
    /\ UNCHANGED ext

\* create_limit_order locking the fee together with the margin
limit_reserve_with_fee(e, order, fee) ==
    [e EXCEPT !.wallet = lock_margin(@, Add(order.margin_used, fee)),
              !.orders = Append(@, order),
              !.pending_orders = [@ EXCEPT ![order.symbol] =
                                     Append(@, Len(e.orders) + 1)]]

\* create_limit_order, "Calculate and reserve margin" on
limit_reserve(e, order, fee) ==
    [e EXCEPT !.wallet = lock_margin(@, order.margin_used),
              !.orders = Append(@, order),
              !.pending_orders = [@ EXCEPT ![order.symbol] =
                                     Append(@, Len(e.orders) + 1)]]

\* create_limit_order locking the margin before it compares available
LimitAccepted_locks_first(order, fee) ==
    IF Lt(wallet.available, Add(order.margin_used, fee))
    THEN /\ SetEngine([Engine EXCEPT
                          !.wallet = lock_margin(@, order.margin_used)])
         /\ result' = "InsufficientMargin"
    ELSE SetEngine(limit_reserve(Engine, order, fee)) /\ result' = "ok"

\* create_limit_order from the comparison of available on
LimitAccepted(order, fee) ==
    IF Lt(wallet.available, Add(order.margin_used, fee))
    THEN Raise("InsufficientMargin")
    ELSE SetEngine(limit_reserve(Engine, order, fee)) /\ result' = "ok"

\* create_limit_order
CreateLimitOrder(symbol, side, quantity, price, leverage, risk, reduce_only) ==
    /\ Len(orders) < MaxOrders
    /\ IF upper(side) \notin {"LONG", "SHORT"} THEN Raise("InvalidOrder")
       ELSE IF ~is_valid_symbol(symbol) THEN Raise("SymbolNotFound")
       ELSE IF ~validate_quantity(symbol, quantity) THEN Raise("InvalidOrder")
       ELSE IF ~validate_leverage(symbol, leverage) THEN Raise("InvalidOrder")
       ELSE LimitAccepted(
                PaperOrder(symbol, upper(side), "LIMIT", quantity, leverage,
                           price, risk, reduce_only,
                           Div(Mul(quantity, price), Dec(leverage)),
                           now + LIMIT_ORDER_EXPIRY_HOURS),
                Mul(Mul(quantity, price), fee_rate))
    /\ UNCHANGED <<prices, now>>
    /\ UNCHANGED ext

\* cancel_order without the check that the order is PENDING
CancelOrder_any_unfilled(order_id) ==
    /\ IF order_id \notin 1..Len(orders) THEN Raise("OrderNotFound")
       ELSE IF orders[order_id].status = "FILLED"
       THEN Raise("OrderAlreadyFilled")
       ELSE /\ orders' = [orders EXCEPT ![order_id] = cancel(@)]
            /\ wallet' = IF Lt(Zero, orders[order_id].margin_used)
                         THEN release_margin(wallet, orders[order_id].margin_used)
                         ELSE wallet
            /\ pending_orders' =
                   [pending_orders EXCEPT
                      ![orders[order_id].symbol] = remove(@, order_id)]
            /\ result' = "ok"
            /\ UNCHANGED <<positions, trade_history>>
    /\ UNCHANGED <<prices, now>>
    /\ UNCHANGED ext

\* cancel_order without a check of the order's status
CancelOrder_unchecked(order_id) ==
    /\ IF order_id \notin 1..Len(orders) THEN Raise("OrderNotFound")
       ELSE /\ orders' = [orders EXCEPT ![order_id] = cancel(@)]
            /\ wallet' = IF orders[order_id].status = "PENDING"
                         THEN release_margin(wallet, orders[order_id].margin_used)
                         ELSE wallet
            /\ pending_orders' =
                   [pending_orders EXCEPT
                      ![orders[order_id].symbol] = remove(@, order_id)]
            /\ result' = "ok"
            /\ UNCHANGED <<positions, trade_history>>
    /\ UNCHANGED <<prices, now>>
    /\ UNCHANGED ext

\* cancel_order
CancelOrder(order_id) ==
    /\ IF order_id \notin 1..Len(orders) THEN Raise("OrderNotFound")
       ELSE IF orders[order_id].status = "FILLED"
       THEN Raise("OrderAlreadyFilled")
       ELSE IF orders[order_id].status # "PENDING" THEN Raise("False")
       ELSE /\ orders' = [orders EXCEPT ![order_id] = cancel(@)]
            /\ wallet' = IF Lt(Zero, orders[order_id].margin_used)
                         THEN release_margin(wallet, orders[order_id].margin_used)
                         ELSE wallet
            /\ pending_orders' =
                   [pending_orders EXCEPT
                      ![orders[order_id].symbol] = remove(@, order_id)]
            /\ result' = "ok"
            /\ UNCHANGED <<positions, trade_history>>
    /\ UNCHANGED <<prices, now>>
    /\ UNCHANGED ext

\* PaperTradingEngine.check_limit_orders
CheckLimitOrders ==
    /\ SetEngine(check_limit_orders(Engine, SymbolOrder))
    /\ result' = "ok"
    /\ UNCHANGED <<prices, now>>
    /\ UNCHANGED ext

\* close_position(position_id, quantity); quantity None closes in full
ClosePosition(position_id, quantity) ==
    /\ IF position_id \notin 1..Len(positions) THEN Raise("PositionNotFound")
       ELSE IF positions[position_id].status # "OPEN"
       THEN Raise("PositionAlreadyClosed")
       ELSE /\ SetEngine(close_position(Engine, position_id,
                             positions[position_id], quantity,
                             get_price(positions[position_id].symbol)))
            /\ result' = "ok"
    /\ UNCHANGED <<prices, now>>
    /\ UNCHANGED ext

\* set_risk_order(position_id, stoploss_price, takeprofit_price);
\* set_stoploss and set_takeprofit are the calls with one price
SetRiskOrder(position_id, stoploss_price, takeprofit_price) ==
    /\ IF position_id \notin 1..Len(positions) THEN Raise("PositionNotFound")
       ELSE IF positions[position_id].status # "OPEN"
       THEN Raise("PositionAlreadyClosed")
       ELSE /\ positions' = [positions EXCEPT ![position_id] =
                   [@ EXCEPT
                      !.stoploss_price =
                          IF stoploss_price # None THEN stoploss_price ELSE @,
                      !.takeprofit_price =
                          IF takeprofit_price # None THEN takeprofit_price ELSE @]]
            /\ result' = "ok"
            /\ UNCHANGED <<wallet, orders, trade_history, pending_orders>>
    /\ UNCHANGED <<prices, now>>
    /\ UNCHANGED ext

\* SLTPMonitor.check_all_positions
CheckAllPositions ==
    /\ SetEngine(check_positions(Engine, open_positions(positions)))
    /\ result' = "ok"
    /\ UNCHANGED <<prices, now>>
    /\ UNCHANGED ext

\* MockPriceFeedService.set_price
SetPrice(symbol, price) ==
    /\ symbol \in DOMAIN prices
    /\ prices[symbol] # price
    /\ prices' = [prices EXCEPT ![symbol] = price]
    /\ result' = "ok"
    /\ UNCHANGED <<wallet, orders, positions, trade_history, pending_orders, now>>
    /\ UNCHANGED ext

\* datetime.utcnow() moves on. Only expires_at of a PENDING order is
\* compared with the clock, so the clock is moved only while one exists.
AdvanceClock ==
    /\ now < MaxClock * ClockStep
    /\ \E i \in 1..Len(orders) : orders[i].status = "PENDING"
    /\ now' = now + ClockStep
    /\ UNCHANGED <<wallet, orders, positions, trade_history, pending_orders,
                   prices, result>>
    /\ UNCHANGED ext

\* The calls that write to the engine, with the arguments OrderInputs. The
\* stop-loss and take-profit prices of a position are set by the order that
\* opens it; set_risk_order is a call of CallNext.
Next ==
    \/ \E s \in Symbols, sd \in Sides, i \in OrderInputs :
          /\ CreateMarketOrder(s, sd, i.quantity, i.leverage, i.risk, i.reduce_only)
          /\ result' # "InvalidOrder"
    \/ \E s \in Symbols, sd \in Sides, i \in OrderInputs, p \in {Dec(100)} :
          /\ CreateLimitOrder(s, sd, i.quantity, p, i.leverage, i.risk, i.reduce_only)
          /\ result' = "ok"
    \/ \E oid \in 1..Len(orders) :
          orders[oid].status = "PENDING" /\ CancelOrder(oid)
    \/ CheckLimitOrders
    \/ \E pid \in 1..Len(positions), q \in {None, Dec(1)} :
          positions[pid].status = "OPEN" /\ ClosePosition(pid, q)
    \/ CheckAllPositions
    \/ \E s \in Symbols, p \in PriceLevels : SetPrice(s, p)
    \/ AdvanceClock

Spec == Init /\ [][Next]_vars

\* Every call, failing ones included: the calls of CallInputs and BadCalls,
\* cancel_order, close_position and set_risk_order on every id and on an
\* unknown one.
CallNext ==
    \/ \E s \in Symbols, sd \in Sides, i \in CallInputs :
          CreateMarketOrder(s, sd, i.quantity, i.leverage, i.risk, i.reduce_only)
    \/ \E c \in BadCalls :
          CreateMarketOrder(c.symbol, c.side, c.quantity, c.leverage, NoRisk, FALSE)
    \/ \E s \in Symbols, sd \in Sides, i \in CallInputs, p \in {Dec(100)} :
          CreateLimitOrder(s, sd, i.quantity, p, i.leverage, i.risk, i.reduce_only)
    \/ \E c \in BadCalls, p \in {Dec(100)} :
          CreateLimitOrder(c.symbol, c.side, c.quantity, p, c.leverage, NoRisk, FALSE)
    \/ \E oid \in 1..(Len(orders) + 1) : CancelOrder(oid)
    \/ CheckLimitOrders
    \/ \E pid \in 1..(Len(positions) + 1) : ClosePosition(pid, None)
    \/ \E pid \in 1..(Len(positions) + 1), r \in {SomeRisk} :
          SetRiskOrder(pid, r[1], r[2])
    \/ CheckAllPositions
    \/ \E s \in Symbols, p \in PriceLevels : SetPrice(s, p)
    \/ AdvanceClock

CallSpec == Init /\ [][CallNext]_vars

\* Orders through either price feed: quantities below min_quantity, off the
\* quantity_step, and valid; leverages around the limits.
FeedInit ==
    /\ InitEngine
    /\ feed \in {"mock", "live"}
    /\ engine_kind = "PaperTradingEngine"
    /\ fee_rate = DEFAULT_FEE_RATE
    /\ InitMonitors

FeedNext ==
    \/ \E s \in Symbols, sd \in Sides, q \in {Frac(1, 2000), Frac(3, 2000), Dec(1), Dec(2)}, L \in {0, 1, 100, 101} :
          CreateMarketOrder(s, sd, q, L, NoRisk, FALSE)
    \/ \E s \in Symbols, sd \in Sides, q \in {Frac(1, 2000), Frac(3, 2000), Dec(1), Dec(2)}, L \in {0, 1, 100, 101},
          p \in {Dec(100)} :
          CreateLimitOrder(s, sd, q, p, L, NoRisk, FALSE)
    \/ CheckLimitOrders
    \/ \E s \in Symbols, p \in PriceLevels : SetPrice(s, p)

FeedSpec == FeedInit /\ [][FeedNext]_vars

(***************************************************************************)
(* The FundingMonitor beside the engine: FundingSpec.  The clock moves in  *)
(* steps of four hours; funding hours are the multiples of 8.  *)
(***************************************************************************)
\* FundingMonitor._process_funding: one tick of _monitor_loop
ProcessFunding(funding_rate, mark_price) ==
    /\ Len(payments) < MaxPayments
    /\ LET m == process_funding([wallet |-> wallet, payments |-> payments,
                         last_funding_time |-> last_funding_time],
                    open_positions(positions), funding_rate, mark_price)
       IN /\ wallet' = m.wallet
          /\ payments' = m.payments
          /\ last_funding_time' = m.last_funding_time
    /\ UNCHANGED <<orders, positions, trade_history, pending_orders, prices,
                   now, result, feed, engine_kind, fee_rate, warned_positions,
                   warnings, liquidations, threads>>

\* FundingMonitor.process_funding_now(symbol=None)
ProcessFundingNow(funding_rate, mark_price) ==
    /\ Len(payments) < MaxPayments
    /\ LET m == process_funding_now([wallet |-> wallet, payments |-> payments,
                         last_funding_time |-> last_funding_time],
                    open_positions(positions), funding_rate, mark_price)
       IN /\ wallet' = m.wallet
          /\ payments' = m.payments
    /\ UNCHANGED <<orders, positions, trade_history, pending_orders, prices,
                   now, result, feed, engine_kind, fee_rate, last_funding_time,
                   warned_positions, warnings, liquidations, threads>>

\* datetime.now(timezone.utc) moves on
FundingClock ==
    /\ now < MaxFundingClock * 4
    /\ now' = now + 4
    /\ UNCHANGED <<wallet, orders, positions, trade_history, pending_orders,
                   prices, result>>
    /\ UNCHANGED ext

MonitorInit ==
    /\ InitEngine
    /\ feed = "mock"
    /\ engine_kind \in {"PaperTradingEngine", "Aliased"}
    /\ fee_rate = DEFAULT_FEE_RATE
    /\ InitMonitors

FundingNext ==
    \/ \E s \in Symbols, sd \in Sides :
          CreateMarketOrder(s, sd, Dec(1), 1, NoRisk, FALSE)
    \/ \E pid \in 1..Len(positions) :
          positions[pid].status = "OPEN" /\ ClosePosition(pid, None)
    \/ \E r \in {Frac(1, 100), Frac(-1, 100)}, m \in {Dec(200)} : ProcessFunding(r, m)
    \/ \E r \in {Frac(1, 100), Frac(-1, 100)}, m \in {Dec(200)} : ProcessFundingNow(r, m)
    \/ FundingClock

FundingSpec == MonitorInit /\ [][FundingNext]_vars

(***************************************************************************)
(* The SLTPMonitor's thread beside the calls of the foreground:            *)
(* ThreadSpec.                                                             *)
(***************************************************************************)
\* SLTPMonitor.start
Start ==
    /\ ~running
    /\ thread \in {"none", "exited"}
    /\ stop_call # "join"
    /\ running' = TRUE
    /\ thread' = "loop"
    /\ stop_call' = "none"
    /\ UNCHANGED <<wallet, orders, positions, trade_history, pending_orders,
                   prices, now, result, feed, engine_kind, fee_rate, payments,
                   last_funding_time, warned_positions, warnings,
                   liquidations, tick, orphan>>

\* _monitor_loop: the while test succeeds, and check_all_positions takes its
\* snapshot of the OPEN positions and fetches their prices
TickBegin ==
    /\ thread = "loop"
    /\ running
    /\ thread' = "tick"
    /\ tick' = [pids |-> open_positions(positions), prices |-> prices]
    /\ UNCHANGED <<wallet, orders, positions, trade_history, pending_orders,
                   prices, now, result, feed, engine_kind, fee_rate, payments,
                   last_funding_time, warned_positions, warnings,
                   liquidations, running, stop_call, orphan>>

\* _monitor_loop: the loop of check_all_positions over the snapshot, then
\* engine.check_limit_orders()
TickEnd ==
    /\ thread = "tick"
    /\ SetEngine(check_limit_orders(
           check_snapshot(Engine, tick.pids, tick.prices), SymbolOrder))
    /\ thread' = "sleep"
    /\ tick' = None
    /\ UNCHANGED <<prices, now, result, feed, engine_kind, fee_rate, payments,
                   last_funding_time, warned_positions, warnings,
                   liquidations, running, stop_call, orphan>>

\* _monitor_loop: time.sleep(interval) ends
Wake ==
    /\ thread = "sleep"
    /\ thread' = "loop"
    /\ UNCHANGED <<wallet, orders, positions, trade_history, pending_orders,
                   prices, now, result, feed, engine_kind, fee_rate, payments,
                   last_funding_time, warned_positions, warnings,
                   liquidations, running, tick, stop_call, orphan>>

\* _monitor_loop: the while test fails
LoopExit ==
    /\ thread = "loop"
    /\ ~running
    /\ thread' = "exited"
    /\ UNCHANGED <<wallet, orders, positions, trade_history, pending_orders,
                   prices, now, result, feed, engine_kind, fee_rate, payments,
                   last_funding_time, warned_positions, warnings,
                   liquidations, running, tick, stop_call, orphan>>

\* SLTPMonitor.stop up to Thread.join
Stop ==
    /\ stop_call # "join"
    /\ running' = FALSE
    /\ stop_call' = IF thread \in {"none", "exited"} THEN "returned"
                    ELSE "join"
    /\ UNCHANGED <<wallet, orders, positions, trade_history, pending_orders,
                   prices, now, result, feed, engine_kind, fee_rate, payments,
                   last_funding_time, warned_positions, warnings,
                   liquidations, thread, tick, orphan>>

\* SLTPMonitor.stop: Thread.join returns because the thread has ended, or
\* because interval + 1 seconds have passed with the tick still executing
JoinReturns ==
    /\ stop_call = "join"
    /\ thread \in {"exited", "tick"}
    /\ stop_call' = "returned"
    /\ UNCHANGED <<wallet, orders, positions, trade_history, pending_orders,
                   prices, now, result, feed, engine_kind, fee_rate, payments,
                   last_funding_time, warned_positions, warnings,
                   liquidations, running, thread, tick, orphan>>

ThreadNext ==
    \/ \E s \in Symbols, sd \in Sides, r \in {NoRisk, SomeRisk} :
          /\ CreateMarketOrder(s, sd, Dec(1), 1, r, FALSE)
          /\ result' = "ok"
    \/ \E pid \in 1..Len(positions) :
          positions[pid].status = "OPEN" /\ ClosePosition(pid, None)
    \/ \E s \in Symbols, p \in PriceLevels : SetPrice(s, p)
    \/ Start
    \/ TickBegin
    \/ TickEnd
    \/ Wake
    \/ LoopExit
    \/ Stop
    \/ JoinReturns

ThreadSpec == Init /\ [][ThreadNext]_vars

(***************************************************************************)
(* start() after a stop() whose join timed out: LifecycleSpec.  orphan is  *)
(* the loop thread of the earlier start(), which _thread no longer names;  *)
(* the model follows one such thread.                                      *)
(***************************************************************************)
\* SLTPMonitor.start while the thread of the earlier start() is alive:
\* only _running is tested
Restart ==
    /\ ~running
    /\ stop_call # "join"
    /\ thread \in {"loop", "tick", "sleep"}
    /\ orphan.at = "none"
    /\ orphan' = [at |-> thread, tick |-> tick]
    /\ running' = TRUE
    /\ thread' = "loop"
    /\ tick' = None
    /\ stop_call' = "none"
    /\ UNCHANGED <<wallet, orders, positions, trade_history, pending_orders,
                   prices, now, result, feed, engine_kind, fee_rate, payments,
                   last_funding_time, warned_positions, warnings,
                   liquidations>>

\* _monitor_loop in the thread of the earlier start(): the end of its tick,
\* the end of its sleep, and the while test with the tick's snapshot
OrphanStep ==
    /\ orphan.at # "none"
    /\ IF orphan.at = "tick"
       THEN /\ SetEngine(check_limit_orders(
                   check_snapshot(Engine, orphan.tick.pids, orphan.tick.prices),
                   SymbolOrder))
            /\ orphan' = [at |-> "sleep", tick |-> None]
       ELSE /\ orphan' =
                   IF orphan.at = "sleep" THEN [at |-> "loop", tick |-> None]
                   ELSE IF running
                   THEN [at |-> "tick",
                         tick |-> [pids |-> open_positions(positions),
                                   prices |-> prices]]
                   ELSE [at |-> "none", tick |-> None]
            /\ UNCHANGED <<wallet, orders, positions, trade_history,
                           pending_orders>>
    /\ UNCHANGED <<prices, now, result, feed, engine_kind, fee_rate, payments,
                   last_funding_time, warned_positions, warnings,
                   liquidations, running, thread, tick, stop_call>>

LifecycleNext ==
    \/ \E s \in Symbols, sd \in Sides :
          /\ CreateMarketOrder(s, sd, Dec(1), 1, SomeRisk, FALSE)
          /\ result' = "ok"
    \/ \E s \in Symbols, p \in PriceLevels : SetPrice(s, p)
    \/ Start
    \/ Restart
    \/ TickBegin
    \/ TickEnd
    \/ Wake
    \/ LoopExit
    \/ Stop
    \/ JoinReturns
    \/ OrphanStep

LifecycleSpec == Init /\ [][LifecycleNext]_vars

(***************************************************************************)
(* An engine that is exported and restored between its calls:              *)
(* RestoreSpec.  The engine is built with the default fee rate or with     *)
(* 0.1 %.                                                                  *)
(***************************************************************************)
\* PaperTradingEngine.from_state(engine.export_state(), price_feed): the
\* calls that follow go to the new engine
FromState ==
    /\ SetEngine(import_state(export_state(Engine)))
    /\ fee_rate' = DEFAULT_FEE_RATE
    /\ result' = "ok"
    /\ UNCHANGED <<prices, now, feed, engine_kind, payments,
                   last_funding_time, warned_positions, warnings,
                   liquidations, threads>>

RestoreInit ==
    /\ InitEngine
    /\ feed = "mock"
    /\ engine_kind = "PaperTradingEngine"
    /\ fee_rate \in {DEFAULT_FEE_RATE, Frac(1, 1000)}
    /\ InitMonitors

RestoreNext ==
    \/ \E s \in Symbols, sd \in Sides, i \in CallInputs :
          /\ CreateMarketOrder(s, sd, i.quantity, i.leverage, i.risk, i.reduce_only)
          /\ result' = "ok"
    \/ \E s \in Symbols, sd \in Sides, p \in {Dec(100)} :
          /\ CreateLimitOrder(s, sd, Dec(1), p, 1, SomeRisk, FALSE)
          /\ result' = "ok"
    \/ CheckLimitOrders
    \/ \E pid \in 1..Len(positions), q \in {None, Dec(1)} :
          positions[pid].status = "OPEN" /\ ClosePosition(pid, q)
    \/ \E pid \in 1..Len(positions), sl \in {Zero, Dec(50)} :
          positions[pid].status = "OPEN" /\ SetRiskOrder(pid, sl, None)
    \/ \E s \in Symbols, p \in PriceLevels : SetPrice(s, p)
    \/ FromState

RestoreSpec == RestoreInit /\ [][RestoreNext]_vars

(***************************************************************************)
(* cancel_order beside a tick that is inside check_limit_orders: RaceSpec. *)
(* The engine has no lock; the tick is interrupted once, between the test  *)
(* of an order's status and the rest of the loop body for that order.      *)
(***************************************************************************)
\* check_limit_orders from the rest of the loop body for Head(order_ids) on:
\* body is the engine after that rest; list.remove raises ValueError, which
\* ends the call, when the rest wrote to an order that is no longer in the
\* index
resume_limit_orders(e, body, symbol, order_ids, current_price) ==
    IF /\ body # e
       /\ \A i \in 1..Len(e.pending_orders[symbol]) :
             e.pending_orders[symbol][i] # Head(order_ids)
    THEN body
    ELSE check_limit_orders(
             check_symbol_orders(body, symbol, Tail(order_ids), current_price),
             Tail(SymbolOrder))

\* _monitor_loop: check_all_positions, then check_limit_orders up to the
\* k-th order of the index, whose status it finds PENDING
FillBegin(k) ==
    /\ thread = "loop"
    /\ running
    /\ k \in 1..Len(pending_orders[Head(SymbolOrder)])
    /\ SetEngine(check_symbol_orders(
           check_positions(Engine, open_positions(positions)),
           Head(SymbolOrder),
           SubSeq(pending_orders[Head(SymbolOrder)], 1, k - 1),
           get_price(Head(SymbolOrder))))
    /\ orders'[pending_orders[Head(SymbolOrder)][k]].status = "PENDING"
    /\ thread' = "fill"
    /\ tick' = [order_ids |->
                    SubSeq(pending_orders[Head(SymbolOrder)], k,
                           Len(pending_orders[Head(SymbolOrder)])),
                price |-> get_price(Head(SymbolOrder))]
    /\ UNCHANGED <<prices, now, result, feed, engine_kind, fee_rate, payments,
                   last_funding_time, warned_positions, warnings,
                   liquidations, running, stop_call, orphan>>

\* check_limit_orders: the rest of the loop body for the order whose status
\* was PENDING when it was read, then the rest of the call
FillEnd ==
    /\ thread = "fill"
    /\ SetEngine(resume_limit_orders(Engine,
           check_limit_order(Engine, Head(SymbolOrder), Head(tick.order_ids),
               [orders[Head(tick.order_ids)] EXCEPT !.status = "PENDING"],
               tick.price),
           Head(SymbolOrder), tick.order_ids, tick.price))
    /\ thread' = "sleep"
    /\ tick' = None
    /\ UNCHANGED <<prices, now, result, feed, engine_kind, fee_rate, payments,
                   last_funding_time, warned_positions, warnings,
                   liquidations, running, stop_call, orphan>>

RaceNext ==
    \/ \E s \in Symbols, sd \in Sides, p \in {Dec(100)} :
          /\ CreateLimitOrder(s, sd, Dec(1), p, 1, NoRisk, FALSE)
          /\ result' = "ok"
    \/ \E oid \in 1..Len(orders) :
          orders[oid].status = "PENDING" /\ CancelOrder(oid)
    \/ \E s \in Symbols, p \in PriceLevels : SetPrice(s, p)
    \/ AdvanceClock
    \/ Start
    \/ \E k \in 1..MaxOrders : FillBegin(k)
    \/ FillEnd
    \/ Wake

RaceSpec == Init /\ [][RaceNext]_vars

(***************************************************************************)
(* A tick whose on_liquidation_warning callback raises: WarnSpec.  Every   *)
(* order has quantity 1, so a position's liquidation_price is the one its  *)
(* last fill computed (engine.py:346, 448) from the fields it has now.     *)
(***************************************************************************)
\* PaperPosition.calculate_liquidation_price
calculate_liquidation_price(p) ==
    IF p.quantity = Zero THEN None
    ELSE IF p.side = "LONG"
    THEN Sub(p.entry_price, Mul(Div(p.margin, p.quantity), Frac(9, 10)))
    ELSE Add(p.entry_price, Mul(Div(p.margin, p.quantity), Frac(9, 10)))

\* _check_liquidation_warning: TRUE when it calls on_liquidation_warning
check_liquidation_warning(p, current_price) ==
    IF ~Truthy(calculate_liquidation_price(p)) THEN FALSE
    ELSE IF p.side = "LONG"
    THEN Lt(Mul(Div(Sub(current_price, calculate_liquidation_price(p)),
                    current_price), Dec(100)), Dec(10))
    ELSE Lt(Mul(Div(Sub(calculate_liquidation_price(p), current_price),
                    current_price), Dec(100)), Dec(10))

\* _monitor_loop: the tick in which on_liquidation_warning raises for the
\* k-th position of the snapshot; the exception leaves check_all_positions
\* and is logged by the loop, which goes to sleep
WarningRaises(k) ==
    /\ thread = "tick"
    /\ k \in 1..Len(tick.pids)
    /\ check_position_triggers(
           check_snapshot(Engine, SubSeq(tick.pids, 1, k - 1),
                          tick.prices).positions[tick.pids[k]],
           tick.prices[positions[tick.pids[k]].symbol]) = "None"
    /\ check_liquidation_warning(
           check_snapshot(Engine, SubSeq(tick.pids, 1, k - 1),
                          tick.prices).positions[tick.pids[k]],
           tick.prices[positions[tick.pids[k]].symbol])
    /\ SetEngine(check_snapshot(Engine, SubSeq(tick.pids, 1, k - 1),
                                tick.prices))
    /\ thread' = "sleep"
    /\ tick' = None
    /\ UNCHANGED <<prices, now, result, feed, engine_kind, fee_rate, payments,
                   last_funding_time, warned_positions, warnings,
                   liquidations, running, stop_call, orphan>>

WarnNext ==
    \/ \E s \in Symbols, sd \in Sides :
          /\ CreateMarketOrder(s, sd, Dec(1), 1, NoRisk, FALSE)
          /\ result' = "ok"
    \/ \E s \in Symbols, sd \in Sides, p \in {Dec(100)} :
          /\ CreateLimitOrder(s, sd, Dec(1), p, 1, NoRisk, FALSE)
          /\ result' = "ok"
    \/ \E s \in Symbols, p \in PriceLevels : SetPrice(s, p)
    \/ Start
    \/ TickBegin
    \/ TickEnd
    \/ \E k \in 1..MaxOrders : WarningRaises(k)
    \/ Wake

WarnSpec == Init /\ [][WarnNext]_vars

(***************************************************************************)
(* The LiquidationEngine beside the engine: LiqSpec.  Positions are        *)
(* opened with leverage 100, so that the mark prices of LiqMarks leave a   *)
(* LONG position entered at 200 safe, at risk, and liquidatable.           *)
(***************************************************************************)
LiqMarks == {Dec(200), Frac(997, 5), Dec(199)}

\* LiquidationEngine._check_positions: one tick of _monitor_loop
CheckPositions(mark_price) ==
    /\ Len(warnings) < MaxWarnings
    /\ LET l == check_margins([wallet |-> wallet, positions |-> positions,
                     warned_positions |-> warned_positions,
                     warnings |-> warnings, liquidations |-> liquidations],
                    open_positions(positions), mark_price)
       IN /\ wallet' = l.wallet
          /\ positions' = l.positions
          /\ warned_positions' = l.warned_positions
          /\ warnings' = l.warnings
          /\ liquidations' = l.liquidations
    /\ UNCHANGED <<orders, trade_history, pending_orders, prices, now, result,
                   feed, engine_kind, fee_rate, payments, last_funding_time,
                   threads>>

LiqNext ==
    \/ \E s \in Symbols, sd \in Sides :
          CreateMarketOrder(s, sd, Dec(1), MAX_LEVERAGE, NoRisk, FALSE)
    \/ \E pid \in 1..Len(positions) :
          positions[pid].status = "OPEN" /\ ClosePosition(pid, None)
    \/ \E s \in Symbols, p \in PriceLevels : SetPrice(s, p)
    \/ \E m \in LiqMarks : CheckPositions(m)

LiqSpec == MonitorInit /\ [][LiqNext]_vars

(***************************************************************************)
(* Definitions the properties share.                                       *)
(***************************************************************************)
RECURSIVE SumSeq(_)
SumSeq(xs) == IF xs = <<>> THEN Zero ELSE Add(Head(xs), SumSeq(Tail(xs)))

\* xs[i] for the i that satisfy Keep, in order
RECURSIVE Pick(_, _, _)
Pick(xs, Keep(_), i) ==
    IF i > Len(xs) THEN <<>>
    ELSE IF Keep(xs[i]) THEN <<xs[i]>> \o Pick(xs, Keep, i + 1)
    ELSE Pick(xs, Keep, i + 1)

IsOpen(p) == p.status = "OPEN"

IsPending(o) == o.status = "PENDING"

MarginOf(ps) == [i \in 1..Len(ps) |-> ps[i].margin]

MarginUsedOf(os) == [i \in 1..Len(os) |-> os[i].margin_used]

\* PnL of quantity q of position p at price, as the specification states it
StatedPnl(p, q, price) ==
    IF p.side = "LONG" THEN Mul(q, Sub(price, p.entry_price))
    ELSE Mul(q, Sub(p.entry_price, price))

LastTrade == trade_history[Len(trade_history)]

\* the step appends exactly the records rs to the ledger
Appends(rs) == trade_history' = trade_history \o rs

\* order oid is filled in this step, and no other order is
Fills(oid) ==
    /\ oid \in 1..Len(orders')
    /\ orders'[oid].status = "FILLED"
    /\ oid \in 1..Len(orders) => orders[oid].status = "PENDING"
    /\ \A j \in 1..Len(orders') :
          (j # oid /\ orders'[j].status = "FILLED")
              => (j \in 1..Len(orders) /\ orders[j].status = "FILLED")

\* the OPEN position the order oid of this step meets on the other side
Opposing(oid) ==
    find_position(positions, orders'[oid].symbol, OppositeSide(orders'[oid].side))

NoOpenPosition(ps, symbol) ==
    OpenIds(ps, symbol, "LONG") = {} /\ OpenIds(ps, symbol, "SHORT") = {}

(***************************************************************************)
(* C1: after every operation, wallet.available + wallet.locked_margin      *)
(* equals wallet.balance.                                                  *)
(***************************************************************************)
C1_AvailablePlusLockedIsBalance ==
    Add(wallet.available, wallet.locked_margin) = wallet.balance

\* a stop-loss or take-profit close has settled at a loss or gain while
\* margin is still locked
C1_Witness ==
    /\ \E i \in 1..Len(trade_history) :
          trade_history[i].action \in {"SL_TRIGGERED", "TP_TRIGGERED"}
    /\ wallet.realized_pnl # Zero
    /\ wallet.locked_margin # Zero
    /\ wallet.balance # InitialBalance

(***************************************************************************)
(* C2: wallet.locked_margin equals the sum of margin over the OPEN         *)
(* positions plus the sum of margin_used over the PENDING orders.          *)
(***************************************************************************)
C2_LockedIsSumOfMargins ==
    wallet.locked_margin =
        Add(SumSeq(MarginOf(Pick(positions, IsOpen, 1))),
            SumSeq(MarginUsedOf(Pick(orders, IsPending, 1))))

(***************************************************************************)
(* C3: wallet.available is never negative.                                 *)
(***************************************************************************)
C3_AvailableNeverNegative == ~Lt(wallet.available, Zero)

(***************************************************************************)
(* C4: for every symbol at most one position is OPEN: at most one per      *)
(* side, and never a LONG and a SHORT together.                            *)
(***************************************************************************)
C4_OneOpenPositionPerSymbol ==
    \A s \in Symbols :
        Cardinality(OpenIds(positions, s, "LONG")
                    \cup OpenIds(positions, s, "SHORT")) <= 1

\* an order has flipped a position: the old one is CLOSED, a new one on the
\* other side is OPEN
C4_Witness ==
    \E i, j \in 1..Len(positions) :
        /\ positions[i].status = "CLOSED"
        /\ positions[j].status = "OPEN"
        /\ positions[i].symbol = positions[j].symbol
        /\ positions[i].side # positions[j].side

(***************************************************************************)
(* C5: while a symbol has seen only fills of one side (no opposite fill,   *)
(* no close), its single OPEN position has the sum of the fills'           *)
(* quantities, the quantity-weighted mean of their prices as entry_price   *)
(* and the sum of the fills' margins q*p/leverage as margin.               *)
(***************************************************************************)
TradesOf(symbol) ==
    Pick(trade_history, LAMBDA t : t.symbol = symbol, 1)

OnlySameSideFills(T) ==
    /\ T # <<>>
    /\ \A i \in 1..Len(T) : T[i].action = "OPEN" /\ T[i].side = T[1].side

FillQuantities(T) == [i \in 1..Len(T) |-> T[i].quantity]

FillNotionals(T) == [i \in 1..Len(T) |-> Mul(T[i].quantity, T[i].price)]

FillMargins(T) ==
    [i \in 1..Len(T) |->
        Div(Mul(T[i].quantity, T[i].price), Dec(orders[T[i].order_id].leverage))]

AveragedInto(T, pid) ==
    /\ pid # NoId
    /\ positions[pid].quantity = SumSeq(FillQuantities(T))
    /\ positions[pid].entry_price =
           Div(SumSeq(FillNotionals(T)), SumSeq(FillQuantities(T)))
    /\ positions[pid].margin = SumSeq(FillMargins(T))

C5_SameSideFillsAverage ==
    \A s \in Symbols :
        OnlySameSideFills(TradesOf(s))
            => AveragedInto(TradesOf(s),
                            find_position(positions, s, TradesOf(s)[1].side))

\* two fills of one side, at different prices, quantities and leverages
C5_Witness ==
    \E s \in Symbols :
        /\ OnlySameSideFills(TradesOf(s))
        /\ Len(TradesOf(s)) = 2
        /\ TradesOf(s)[1].price # TradesOf(s)[2].price
        /\ TradesOf(s)[1].quantity # TradesOf(s)[2].quantity
        /\ orders[TradesOf(s)[1].order_id].leverage
               # orders[TradesOf(s)[2].order_id].leverage

(***************************************************************************)
(* C6: an order that fills against an OPEN opposite position of the same   *)
(* quantity leaves that position CLOSED with exit_price the execution      *)
(* price, and no OPEN position of the symbol on either side.               *)
(***************************************************************************)
\* the price the order oid of this step executes at
ExecutionPrice(oid) ==
    IF orders'[oid].order_type = "MARKET"
    THEN prices[orders'[oid].symbol] ELSE orders'[oid].price

C6_EqualQuantityCloses ==
    [][\A oid \in 1..Len(orders') :
          ( /\ Fills(oid)
            /\ Opposing(oid) # NoId
            /\ orders'[oid].quantity = positions[Opposing(oid)].quantity )
          => /\ positions'[Opposing(oid)].status = "CLOSED"
             /\ positions'[Opposing(oid)].exit_price = ExecutionPrice(oid)
             /\ orders'[oid].filled_price = ExecutionPrice(oid)
             /\ Len(positions') = Len(positions)
             /\ NoOpenPosition(positions', orders'[oid].symbol)]_vars

\* the ledger ends with the close of a position and the fill of an order of
\* the other side and the same quantity, which got no position
C6_Witness ==
    /\ Len(trade_history) >= 2
    /\ LastTrade.action = "OPEN"
    /\ LastTrade.position_id = NoId
    /\ trade_history[Len(trade_history) - 1].action = "CLOSE"
    /\ trade_history[Len(trade_history) - 1].side # LastTrade.side
    /\ trade_history[Len(trade_history) - 1].quantity = LastTrade.quantity
    /\ positions[trade_history[Len(trade_history) - 1].position_id].status = "CLOSED"
    /\ NoOpenPosition(positions, LastTrade.symbol)

(***************************************************************************)
(* C7: an order of quantity q that fills at price p against an OPEN        *)
(* opposite position of quantity Q > q leaves the position OPEN with       *)
(* quantity Q - q and its entry price, the wallet realizes q*(p - entry)   *)
(* for a LONG position (q*(entry - p) for a SHORT one), and the locked     *)
(* margin of the wallet falls by q/Q of the position's margin.             *)
(***************************************************************************)
C7_SmallerQuantityReduces ==
    [][\A oid \in 1..Len(orders') :
          ( /\ Fills(oid)
            /\ Opposing(oid) # NoId
            /\ Lt(orders'[oid].quantity, positions[Opposing(oid)].quantity) )
          => /\ positions'[Opposing(oid)].status = "OPEN"
             /\ positions'[Opposing(oid)].quantity =
                    Sub(positions[Opposing(oid)].quantity, orders'[oid].quantity)
             /\ positions'[Opposing(oid)].entry_price =
                    positions[Opposing(oid)].entry_price
             /\ wallet'.realized_pnl =
                    Add(wallet.realized_pnl,
                        StatedPnl(positions[Opposing(oid)], orders'[oid].quantity,
                                  ExecutionPrice(oid)))
             /\ wallet'.locked_margin =
                    Sub(wallet.locked_margin,
                        Mul(Div(orders'[oid].quantity,
                                positions[Opposing(oid)].quantity),
                            positions[Opposing(oid)].margin))]_vars

(***************************************************************************)
(* C8: an order of quantity q that fills at price p against an OPEN        *)
(* opposite position of quantity Q < q leaves that position CLOSED at p    *)
(* and creates exactly one new OPEN position, on the order's side, with    *)
(* quantity q - Q, entry price p and margin (q - Q)*p/leverage.            *)
(***************************************************************************)
Flips(oid) ==
    /\ Fills(oid)
    /\ Opposing(oid) # NoId
    /\ Lt(positions[Opposing(oid)].quantity, orders'[oid].quantity)

Flipped(oid) ==
    /\ positions'[Opposing(oid)].status = "CLOSED"
    /\ positions'[Opposing(oid)].exit_price = ExecutionPrice(oid)
    /\ Len(positions') = Len(positions) + 1
    /\ OpenIds(positions', orders'[oid].symbol, orders'[oid].side)
           = {Len(positions')}
    /\ OpenIds(positions', orders'[oid].symbol, OppositeSide(orders'[oid].side))
           = {}
    /\ positions'[Len(positions')].quantity =
           Sub(orders'[oid].quantity, positions[Opposing(oid)].quantity)
    /\ positions'[Len(positions')].entry_price = ExecutionPrice(oid)
    /\ positions'[Len(positions')].margin =
           Div(Mul(Sub(orders'[oid].quantity, positions[Opposing(oid)].quantity),
                   ExecutionPrice(oid)),
               Dec(orders'[oid].leverage))

\* C8 as stated, for every order
C8_LargerQuantityFlips ==
    [][\A oid \in 1..Len(orders') : Flips(oid) => Flipped(oid)]_vars

\* C8 for the orders that go through the netting: every order but a
\* reduce_only MARKET order, which closes the position and opens nothing
C8_LargerQuantityFlipsUnlessReduceOnly ==
    [][\A oid \in 1..Len(orders') :
          ( /\ Flips(oid)
            /\ ~(orders'[oid].order_type = "MARKET" /\ orders'[oid].reduce_only) )
          => Flipped(oid)]_vars

\* an order has flipped a position of quantity 1 into one of quantity 1 on
\* its own side: the ledger ends with the close and the order's fill
C8_Witness ==
    /\ Len(trade_history) >= 2
    /\ LastTrade.action = "OPEN"
    /\ LastTrade.position_id # NoId
    /\ trade_history[Len(trade_history) - 1].action = "CLOSE"
    /\ trade_history[Len(trade_history) - 1].side # LastTrade.side
    /\ Lt(trade_history[Len(trade_history) - 1].quantity, LastTrade.quantity)
    /\ positions[LastTrade.position_id].status = "OPEN"
    /\ positions[LastTrade.position_id].side = LastTrade.side
    /\ positions[LastTrade.position_id].quantity =
           Sub(LastTrade.quantity,
               trade_history[Len(trade_history) - 1].quantity)

(***************************************************************************)
(* C9: a successful market order of quantity q at price p with leverage L  *)
(* on a symbol with no OPEN position lowers available by q*p/L +           *)
(* q*p*fee_rate, raises locked_margin by q*p/L, lowers balance by the fee, *)
(* creates exactly one OPEN position (quantity q, entry p, margin q*p/L),  *)
(* leaves the order FILLED with filled_price p and appends exactly one     *)
(* TradeRecord, with action OPEN.                                          *)
(***************************************************************************)
MarketOrderOpened(s, sd, q, L, p) ==
    /\ wallet'.available =
           Sub(wallet.available,
               Add(Div(Mul(q, p), Dec(L)), Mul(Mul(q, p), DEFAULT_FEE_RATE)))
    /\ wallet'.locked_margin = Add(wallet.locked_margin, Div(Mul(q, p), Dec(L)))
    /\ wallet'.balance = Sub(wallet.balance, Mul(Mul(q, p), DEFAULT_FEE_RATE))
    /\ Len(positions') = Len(positions) + 1
    /\ SubSeq(positions', 1, Len(positions)) = positions
    /\ positions'[Len(positions')].status = "OPEN"
    /\ positions'[Len(positions')].symbol = s
    /\ positions'[Len(positions')].side = sd
    /\ positions'[Len(positions')].quantity = q
    /\ positions'[Len(positions')].entry_price = p
    /\ positions'[Len(positions')].margin = Div(Mul(q, p), Dec(L))
    /\ orders'[Len(orders')].status = "FILLED"
    /\ orders'[Len(orders')].filled_price = p
    /\ Len(trade_history') = Len(trade_history) + 1
    /\ SubSeq(trade_history', 1, Len(trade_history)) = trade_history
    /\ trade_history'[Len(trade_history')].action = "OPEN"
    /\ trade_history'[Len(trade_history')].order_id = Len(orders')

C9_MarketOrderOpensPosition ==
    [][\A s \in Symbols, sd \in Sides, i \in OrderInputs :
          ( /\ CreateMarketOrder(s, sd, i.quantity, i.leverage, i.risk,
                                 i.reduce_only)
            /\ NoOpenPosition(positions, s)
            /\ result' = "ok" )
          => MarketOrderOpened(s, sd, i.quantity, i.leverage, prices[s])]_vars

\* a market order with leverage 2 has opened the only position there is,
\* after an earlier position of the symbol was closed
C9_Witness ==
    /\ Len(orders) >= 1
    /\ orders[Len(orders)].order_type = "MARKET"
    /\ orders[Len(orders)].status = "FILLED"
    /\ orders[Len(orders)].leverage = 2
    /\ Len(positions) >= 2
    /\ orders[Len(orders)].position_id = Len(positions)
    /\ \A i \in 1..Len(positions) :
          positions[i].status = "OPEN" <=> i = Len(positions)
    /\ LastTrade.action = "OPEN"
    /\ LastTrade.order_id = Len(orders)
    /\ trade_history[Len(trade_history) - 1].action # "OPEN"

(***************************************************************************)
(* C10: a full close_position at price p leaves the position CLOSED with   *)
(* exit_price p and close_reason MANUAL, moves balance by pnl - exit_fee,  *)
(* lowers locked_margin by the whole margin of the position and appends    *)
(* exactly one TradeRecord, with action CLOSE.                             *)
(***************************************************************************)
FullyClosed(pid, p) ==
    /\ positions'[pid].status = "CLOSED"
    /\ positions'[pid].exit_price = p
    /\ positions'[pid].close_reason = "MANUAL"
    /\ wallet'.balance =
           Add(wallet.balance,
               Sub(StatedPnl(positions[pid], positions[pid].quantity, p),
                   Mul(Mul(positions[pid].quantity, p), DEFAULT_FEE_RATE)))
    /\ wallet'.locked_margin = Sub(wallet.locked_margin, positions[pid].margin)
    /\ Len(trade_history') = Len(trade_history) + 1
    /\ SubSeq(trade_history', 1, Len(trade_history)) = trade_history
    /\ trade_history'[Len(trade_history')].action = "CLOSE"
    /\ trade_history'[Len(trade_history')].position_id = pid

C10_FullCloseSettles ==
    [][\A pid \in 1..Len(positions), q \in {None, Dec(1)} :
          ( /\ positions[pid].status = "OPEN"
            /\ (q = None \/ Le(positions[pid].quantity, q))
            /\ ClosePosition(pid, q) )
          => FullyClosed(pid, prices[positions[pid].symbol])]_vars

\* a position that two fills built has been closed by hand at a price other
\* than its entry price, and it is the last thing that happened
C10_Witness ==
    /\ Len(trade_history) >= 3
    /\ LastTrade.action = "CLOSE"
    /\ LastTrade.order_id = NoId
    /\ positions[LastTrade.position_id].close_reason = "MANUAL"
    /\ positions[LastTrade.position_id].exit_price
           # positions[LastTrade.position_id].entry_price
    /\ LastTrade.pnl # Zero
    /\ \A i \in 1..Len(orders) : orders[i].status = "FILLED" /\ ~orders[i].reduce_only
    /\ Len(orders) = 2
    /\ \A i \in 1..(Len(trade_history) - 1) : trade_history[i].action = "OPEN"

(***************************************************************************)
(* C11: close_position(id, q) with 0 < q < Q on an OPEN position of        *)
(* quantity Q realizes q/Q of the position's unrealized PnL at the current *)
(* price, releases q/Q of its margin from locked_margin, leaves the        *)
(* position OPEN with quantity Q - q and its entry price, and appends one  *)
(* PARTIAL_CLOSE TradeRecord.                                              *)
(***************************************************************************)
PartlyClosed(pid, q, p) ==
    /\ wallet'.realized_pnl =
           Add(wallet.realized_pnl,
               Mul(Div(q, positions[pid].quantity),
                   StatedPnl(positions[pid], positions[pid].quantity, p)))
    /\ wallet'.balance =
           Add(wallet.balance,
               Mul(Div(q, positions[pid].quantity),
                   StatedPnl(positions[pid], positions[pid].quantity, p)))
    /\ wallet'.locked_margin =
           Sub(wallet.locked_margin,
               Mul(Div(q, positions[pid].quantity), positions[pid].margin))
    /\ positions'[pid].status = "OPEN"
    /\ positions'[pid].quantity = Sub(positions[pid].quantity, q)
    /\ positions'[pid].entry_price = positions[pid].entry_price
    /\ Len(trade_history') = Len(trade_history) + 1
    /\ SubSeq(trade_history', 1, Len(trade_history)) = trade_history
    /\ trade_history'[Len(trade_history')].action = "PARTIAL_CLOSE"
    /\ trade_history'[Len(trade_history')].position_id = pid

C11_PartialCloseSettles ==
    [][\A pid \in 1..Len(positions), q \in {Dec(1)} :
          ( /\ positions[pid].status = "OPEN"
            /\ Lt(Zero, q) /\ Lt(q, positions[pid].quantity)
            /\ ClosePosition(pid, q) )
          => PartlyClosed(pid, q, prices[positions[pid].symbol])]_vars

\* a part of a position has been closed at a price other than its entry
\* price, and the rest is OPEN
C11_Witness ==
    /\ trade_history # <<>>
    /\ LastTrade.action = "PARTIAL_CLOSE"
    /\ LastTrade.pnl # Zero
    /\ positions[LastTrade.position_id].status = "OPEN"
    /\ positions[LastTrade.position_id].quantity = LastTrade.quantity
    /\ wallet.locked_margin # Zero

(***************************************************************************)
(* C12: from no exposure, a market order that opens a position followed by *)
(* an opposite market order of the same quantity at the same price leaves  *)
(* wallet.balance at its pre-trade value minus the fees paid in between    *)
(* (the increase of total_fees_paid).                                      *)
(***************************************************************************)
\* all that has happened to the engine is a market order and its offset
RoundTrip ==
    /\ Len(orders) = 2
    /\ \A i \in 1..2 : orders[i].order_type = "MARKET" /\ orders[i].status = "FILLED"
    /\ orders[1].side # orders[2].side
    /\ orders[1].quantity = orders[2].quantity
    /\ orders[1].filled_price = orders[2].filled_price
    /\ Len(positions) = 1
    /\ \A i \in 1..Len(trade_history) : trade_history[i].action \in {"OPEN", "CLOSE"}

C12_RoundTripCostsTheFees ==
    RoundTrip =>
        /\ positions[1].status = "CLOSED"
        /\ wallet.balance = Sub(InitialBalance, wallet.total_fees_paid)

\* a round trip whose second order is an ordinary one, with another leverage
C12_Witness ==
    /\ RoundTrip
    /\ ~orders[2].reduce_only
    /\ orders[1].leverage # orders[2].leverage
    /\ Lt(Zero, wallet.total_fees_paid)

(***************************************************************************)
(* C13: a create_market_order that is not reduce_only, with                *)
(* wallet.available < quantity*price/leverage + quantity*price*fee_rate,   *)
(* fails with InsufficientMargin; the order is recorded REJECTED and       *)
(* wallet, positions, pending orders and trade history are as before.      *)
(***************************************************************************)
Unaffordable(q, p, L) ==
    Lt(wallet.available,
       Add(Div(Mul(q, p), Dec(L)), Mul(Mul(q, p), DEFAULT_FEE_RATE)))

C13_UnaffordableMarketOrderRejected ==
    [][\A s \in Symbols, sd \in Sides, i \in OrderInputs :
          ( /\ Len(orders) < MaxOrders
            /\ ~i.reduce_only
            /\ Unaffordable(i.quantity, prices[s], i.leverage)
            /\ CreateMarketOrder(s, sd, i.quantity, i.leverage, i.risk,
                                 i.reduce_only) )
          => /\ result' = "InsufficientMargin"
             /\ orders' = Append(orders, orders'[Len(orders')])
             /\ orders'[Len(orders')].status = "REJECTED"
             /\ orders'[Len(orders')].order_type = "MARKET"
             /\ UNCHANGED <<wallet, positions, pending_orders, trade_history>>]_vars

\* a market order has just been rejected while a position is OPEN and
\* margin is locked
C13_Witness ==
    /\ result = "InsufficientMargin"
    /\ orders # <<>>
    /\ orders[Len(orders)].status = "REJECTED"
    /\ ~orders[Len(orders)].reduce_only
    /\ \E pid \in 1..Len(positions) : positions[pid].status = "OPEN"
    /\ Lt(Zero, wallet.locked_margin)

(***************************************************************************)
(* C14: a successful create_limit_order reserves at creation: available    *)
(* decreases by quantity*price/leverage + quantity*price*fee_rate, the     *)
(* order is stored PENDING with expires_at 24 hours after creation, and no *)
(* position is created or changed.                                         *)
(***************************************************************************)
\* the order is stored PENDING, expiring in 24 hours, and indexed; nothing
\* else but the wallet is written
LimitOrderStored(s, sd, i, p) ==
    /\ Len(orders') = Len(orders) + 1
    /\ SubSeq(orders', 1, Len(orders)) = orders
    /\ orders'[Len(orders')].status = "PENDING"
    /\ orders'[Len(orders')].order_type = "LIMIT"
    /\ orders'[Len(orders')].symbol = s
    /\ orders'[Len(orders')].side = sd
    /\ orders'[Len(orders')].quantity = i.quantity
    /\ orders'[Len(orders')].price = p
    /\ orders'[Len(orders')].expires_at = now + 24
    /\ pending_orders'[s] = Append(pending_orders[s], Len(orders'))
    /\ UNCHANGED <<positions, trade_history>>

\* C14 as stated: the margin and the fee leave available
C14_LimitOrderReservesMarginAndFee ==
    [][\A s \in Symbols, sd \in Sides, i \in OrderInputs, p \in {Dec(100)} :
          ( /\ Len(orders) < MaxOrders
            /\ CreateLimitOrder(s, sd, i.quantity, p, i.leverage, i.risk,
                                i.reduce_only)
            /\ result' = "ok" )
          => /\ LimitOrderStored(s, sd, i, p)
             /\ wallet'.available =
                    Sub(wallet.available,
                        Add(Div(Mul(i.quantity, p), Dec(i.leverage)),
                            Mul(Mul(i.quantity, p), DEFAULT_FEE_RATE)))]_vars

\* C14 with the margin alone reserved: available decreases and
\* locked_margin increases by quantity*price/leverage, balance stays; the
\* fee is compared with available at creation and charged at the fill
C14_LimitOrderReservesMargin ==
    [][\A s \in Symbols, sd \in Sides, i \in OrderInputs, p \in {Dec(100)} :
          ( /\ Len(orders) < MaxOrders
            /\ CreateLimitOrder(s, sd, i.quantity, p, i.leverage, i.risk,
                                i.reduce_only)
            /\ result' = "ok" )
          => /\ LimitOrderStored(s, sd, i, p)
             /\ wallet'.available =
                    Sub(wallet.available,
                        Div(Mul(i.quantity, p), Dec(i.leverage)))
             /\ wallet'.locked_margin =
                    Add(wallet.locked_margin,
                        Div(Mul(i.quantity, p), Dec(i.leverage)))
             /\ wallet'.balance = wallet.balance
             /\ wallet'.total_fees_paid = wallet.total_fees_paid]_vars

\* a limit order with leverage 2 has just been stored while a position is
\* OPEN
C14_Witness ==
    /\ result = "ok"
    /\ orders # <<>>
    /\ orders[Len(orders)].order_type = "LIMIT"
    /\ orders[Len(orders)].status = "PENDING"
    /\ orders[Len(orders)].leverage = 2
    /\ orders[Len(orders)].expires_at = now + 24
    /\ pending_orders[orders[Len(orders)].symbol] = <<Len(orders)>>
    /\ \E pid \in 1..Len(positions) : positions[pid].status = "OPEN"

(***************************************************************************)
(* C15: check_limit_orders fills a PENDING, unexpired limit order if and   *)
(* only if it is LONG and the current price is at or below its limit       *)
(* price, or SHORT and the current price is at or above it; the order then *)
(* has filled_price equal to its limit price. An order whose condition     *)
(* does not hold stays PENDING with its margin still locked.               *)
(***************************************************************************)
InIndex(po, oid) == \E s \in Symbols : \E k \in 1..Len(po[s]) : po[s][k] = oid

Expired(o) == now > o.expires_at

LimitReached(o) ==
    \/ o.side = "LONG" /\ Le(prices[o.symbol], o.price)
    \/ o.side = "SHORT" /\ Le(o.price, prices[o.symbol])

C15_LimitOrderFillsAtItsPrice ==
    [][CheckLimitOrders =>
          \A oid \in 1..Len(orders) :
             (orders[oid].status = "PENDING" /\ ~Expired(orders[oid]))
             => IF LimitReached(orders[oid])
                THEN /\ orders'[oid].status = "FILLED"
                     /\ orders'[oid].filled_price = orders[oid].price
                     /\ ~InIndex(pending_orders', oid)
                ELSE /\ orders'[oid] = orders[oid]
                     /\ InIndex(pending_orders', oid)
                     /\ Le(orders[oid].margin_used, wallet'.locked_margin)]_vars

\* both outcomes of one check: a limit order filled at its limit price while
\* the market was elsewhere, next to one still PENDING and indexed
C15_Witness ==
    /\ result = "ok"
    /\ \E oid \in 1..Len(orders) :
          /\ orders[oid].order_type = "LIMIT"
          /\ orders[oid].status = "FILLED"
          /\ orders[oid].filled_price = orders[oid].price
          /\ orders[oid].price # prices[orders[oid].symbol]
    /\ \E oid \in 1..Len(orders) :
          /\ orders[oid].status = "PENDING"
          /\ ~Expired(orders[oid])
          /\ ~LimitReached(orders[oid])
          /\ InIndex(pending_orders, oid)

(***************************************************************************)
(* C16: a PENDING limit order examined by check_limit_orders after its     *)
(* expires_at becomes EXPIRED, exactly its margin_used is released back to *)
(* available, it is removed from the pending index, and it is never filled *)
(* afterwards.                                                             *)
(***************************************************************************)
\* margin_used of the PENDING orders past their expires_at
ExpiredMargin ==
    SumSeq([i \in 1..Len(orders) |->
               IF orders[i].status = "PENDING" /\ Expired(orders[i])
               THEN orders[i].margin_used ELSE Zero])

\* no PENDING order is filled by a check at the current price and time
NothingToFill ==
    \A i \in 1..Len(orders) :
       (orders[i].status = "PENDING" /\ ~Expired(orders[i]))
           => ~LimitReached(orders[i])

C16_ExpiredOrderReleasesItsMargin ==
    [][/\ CheckLimitOrders =>
            /\ \A oid \in 1..Len(orders) :
                  (orders[oid].status = "PENDING" /\ Expired(orders[oid]))
                  => /\ orders'[oid] = [orders[oid] EXCEPT !.status = "EXPIRED"]
                     /\ ~InIndex(pending_orders', oid)
            /\ NothingToFill =>
                  /\ wallet'.available = Add(wallet.available, ExpiredMargin)
                  /\ wallet'.locked_margin =
                         Sub(wallet.locked_margin, ExpiredMargin)
                  /\ wallet'.balance = wallet.balance
                  /\ UNCHANGED <<positions, trade_history>>
       /\ \A oid \in 1..Len(orders) :
             orders[oid].status = "EXPIRED"
                 => /\ oid \in 1..Len(orders')
                    /\ orders'[oid] = orders[oid]]_vars

\* an order has expired while the price was at a level that would have
\* filled it, and another order was stored after it
C16_Witness ==
    \E oid \in 1..Len(orders) :
       /\ orders[oid].status = "EXPIRED"
       /\ Lt(Zero, orders[oid].margin_used)
       /\ LimitReached(orders[oid])
       /\ ~InIndex(pending_orders, oid)
       /\ oid < Len(orders)

(***************************************************************************)
(* C17: cancel_order on a PENDING order sets it CANCELLED, releases        *)
(* exactly the margin locked for it and removes it from the pending index; *)
(* on a FILLED order it fails with OrderAlreadyFilled; on a CANCELLED,     *)
(* EXPIRED or REJECTED order it returns false; in the last two cases no    *)
(* state changes.                                                          *)
(***************************************************************************)
EngineUnchanged ==
    UNCHANGED <<wallet, orders, positions, trade_history, pending_orders>>

C17_CancelByStatus ==
    [][\A oid \in 1..Len(orders) :
          CancelOrder(oid) =>
             CASE orders[oid].status = "PENDING" ->
                     /\ result' = "ok"
                     /\ orders' = [orders EXCEPT ![oid].status = "CANCELLED"]
                     /\ wallet'.available =
                            Add(wallet.available, orders[oid].margin_used)
                     /\ wallet'.locked_margin =
                            Sub(wallet.locked_margin, orders[oid].margin_used)
                     /\ wallet'.balance = wallet.balance
                     /\ InIndex(pending_orders, oid)
                     /\ ~InIndex(pending_orders', oid)
                     /\ \A j \in 1..Len(orders) :
                           j # oid => (InIndex(pending_orders', j)
                                          <=> InIndex(pending_orders, j))
                     /\ UNCHANGED <<positions, trade_history>>
               [] orders[oid].status = "FILLED" ->
                     result' = "OrderAlreadyFilled" /\ EngineUnchanged
               [] orders[oid].status \in {"CANCELLED", "EXPIRED", "REJECTED"} ->
                     result' = "False" /\ EngineUnchanged]_vars

\* cancel_order has just returned false, an order cancelled while PENDING
\* has its margin back in available, and another order is FILLED
C17_Witness ==
    /\ result = "False"
    /\ \E oid \in 1..Len(orders) :
          /\ orders[oid].status = "CANCELLED"
          /\ Lt(Zero, orders[oid].margin_used)
    /\ \E oid \in 1..Len(orders) : orders[oid].status = "FILLED"

(***************************************************************************)
(* C18: once an order's status is FILLED, CANCELLED, EXPIRED or REJECTED,  *)
(* no later operation changes that status, and the order is never removed  *)
(* from the order map.                                                     *)
(***************************************************************************)
TerminalStatuses == {"FILLED", "CANCELLED", "EXPIRED", "REJECTED"}

C18_TerminalStatusIsFinal ==
    [][\A oid \in 1..Len(orders) :
          orders[oid].status \in TerminalStatuses
              => /\ oid \in 1..Len(orders')
                 /\ orders'[oid].status = orders[oid].status]_vars

\* a FILLED order that cancel_order has just been tried on, with an order
\* in another terminal status stored after it
C18_Witness ==
    /\ result = "OrderAlreadyFilled"
    /\ Len(orders) = 2
    /\ orders[1].status = "FILLED"
    /\ orders[2].status \in TerminalStatuses \ {"FILLED"}

(***************************************************************************)
(* C19: every call that fails with InvalidOrder, SymbolNotFound,           *)
(* PositionNotFound, OrderNotFound, PositionAlreadyClosed or               *)
(* OrderAlreadyFilled, and create_limit_order failing with                 *)
(* InsufficientMargin, leaves the wallet, the positions, the orders, the   *)
(* pending orders and the trade history unchanged.                         *)
(***************************************************************************)
NoWriteErrors ==
    {"InvalidOrder", "SymbolNotFound", "PositionNotFound", "OrderNotFound",
     "PositionAlreadyClosed", "OrderAlreadyFilled"}

C19_FailedCallWritesNothing ==
    [][/\ result' \in NoWriteErrors => EngineUnchanged
       /\ \A s \in Symbols, sd \in Sides, i \in CallInputs, p \in {Dec(100)} :
             ( /\ Len(orders) < MaxOrders
               /\ result' = "InsufficientMargin"
               /\ CreateLimitOrder(s, sd, i.quantity, p, i.leverage, i.risk,
                                   i.reduce_only) )
             => EngineUnchanged]_vars

\* create_limit_order has just failed with InsufficientMargin: a market
\* order that fails so is stored REJECTED, and none is
C19_Witness ==
    /\ result = "InsufficientMargin"
    /\ orders # <<>>
    /\ \A oid \in 1..Len(orders) : orders[oid].status # "REJECTED"

(***************************************************************************)
(* C20: a reduce_only order (market or limit) never opens a new position   *)
(* and never increases the quantity of an existing position: with an       *)
(* opposing OPEN position it closes it, and a reduce_only market order     *)
(* with no OPEN position on the symbol fails with InvalidOrder without     *)
(* changing state.                                                         *)
(***************************************************************************)
\* the step creates no position and leaves no OPEN position larger
NothingAdded ==
    /\ Len(positions') = Len(positions)
    /\ \A pid \in 1..Len(positions) :
          positions'[pid].status = "OPEN"
              => /\ positions[pid].status = "OPEN"
                 /\ Le(positions'[pid].quantity, positions[pid].quantity)

C20_ReduceOnlyNeverAdds ==
    [][/\ \A oid \in 1..Len(orders') :
             (Fills(oid) /\ orders'[oid].reduce_only)
             => /\ NothingAdded
                /\ Opposing(oid) # NoId
                       => positions'[Opposing(oid)].status = "CLOSED"
       /\ \A s \in Symbols, sd \in Sides, i \in CallInputs :
             ( /\ Len(orders) < MaxOrders
               /\ i.reduce_only
               /\ NoOpenPosition(positions, s)
               /\ CreateMarketOrder(s, sd, i.quantity, i.leverage, i.risk,
                                    i.reduce_only) )
             => result' = "InvalidOrder" /\ EngineUnchanged]_vars

(***************************************************************************)
(* C21: create_market_order and create_limit_order accept an order only if *)
(* min_quantity <= quantity <= max_quantity, the quantity is a multiple of *)
(* quantity_step and min_leverage <= leverage <= max_leverage; otherwise   *)
(* they fail with InvalidOrder before any mutation, and the decision is    *)
(* the same with the live and with the mock price feed.                    *)
(***************************************************************************)
IsMultiple(quantity, step) == Div(quantity, step)[2] = 1

StatedValid(quantity, leverage) ==
    /\ Le(MIN_QUANTITY, quantity)
    /\ Le(quantity, MAX_QUANTITY)
    /\ IsMultiple(quantity, QUANTITY_STEP)
    /\ MIN_LEVERAGE <= leverage
    /\ leverage <= MAX_LEVERAGE

C21_ValidationByAssetInfo ==
    [][\A s \in Symbols, sd \in Sides, q \in {Frac(1, 2000), Frac(3, 2000), Dec(1), Dec(2)}, L \in {0, 1, 100, 101} :
          /\ ( /\ Len(orders) < MaxOrders
               /\ CreateMarketOrder(s, sd, q, L, NoRisk, FALSE) )
             => /\ result' = "InvalidOrder" <=> ~StatedValid(q, L)
                /\ result' = "InvalidOrder" => EngineUnchanged
          /\ \A p \in {Dec(100)} :
                ( /\ Len(orders) < MaxOrders
                  /\ CreateLimitOrder(s, sd, q, p, L, NoRisk, FALSE) )
                => /\ result' = "InvalidOrder" <=> ~StatedValid(q, L)
                   /\ result' = "InvalidOrder" => EngineUnchanged]_vars

(***************************************************************************)
(* C22: in one SL/TP tick, an OPEN position with take-profit and stop-loss *)
(* both set whose TP condition and SL condition are both true at the       *)
(* tick's price is closed with close_reason TAKEPROFIT (a TP_TRIGGERED     *)
(* trade), never STOPLOSS.                                                 *)
(***************************************************************************)
TpCrossed(p, price) ==
    /\ p.takeprofit_price # None
    /\ \/ p.side = "LONG" /\ Le(p.takeprofit_price, price)
       \/ p.side = "SHORT" /\ Le(price, p.takeprofit_price)

SlCrossed(p, price) ==
    /\ p.stoploss_price # None
    /\ \/ p.side = "LONG" /\ Le(price, p.stoploss_price)
       \/ p.side = "SHORT" /\ Le(p.stoploss_price, price)

\* the ledger records written by the step for position pid
ClosingTrades(pid) ==
    {k \in (Len(trade_history) + 1)..Len(trade_history') :
        trade_history'[k].position_id = pid}

C22_TakeProfitBeforeStopLoss ==
    [][CheckAllPositions =>
          \A pid \in 1..Len(positions) :
             ( /\ positions[pid].status = "OPEN"
               /\ TpCrossed(positions[pid], prices[positions[pid].symbol])
               /\ SlCrossed(positions[pid], prices[positions[pid].symbol]) )
             => /\ positions'[pid].status = "CLOSED"
                /\ positions'[pid].close_reason = "TAKEPROFIT"
                /\ ClosingTrades(pid) # {}
                /\ \A k \in ClosingTrades(pid) :
                      trade_history'[k].action = "TP_TRIGGERED"]_vars

\* a position closed by its take-profit at a price that also crossed its
\* stop-loss
C22_Witness ==
    \E pid \in 1..Len(positions) :
       /\ positions[pid].status = "CLOSED"
       /\ positions[pid].close_reason = "TAKEPROFIT"
       /\ SlCrossed(positions[pid], positions[pid].exit_price)
       /\ TpCrossed(positions[pid], positions[pid].exit_price)
       /\ \E k \in 1..Len(trade_history) :
             /\ trade_history[k].position_id = pid
             /\ trade_history[k].action = "TP_TRIGGERED"

(***************************************************************************)
(* C23: in an SL/TP tick an OPEN position is closed if and only if one of  *)
(* its triggers is crossed (LONG: price >= tp or price <= sl; SHORT:       *)
(* price <= tp or price >= sl); the close settles the wallet exactly as a  *)
(* manual full close at that price and differs only in close_reason        *)
(* STOPLOSS/TAKEPROFIT and trade action SL_TRIGGERED/TP_TRIGGERED.         *)
(***************************************************************************)
\* what a manual full close of pid would leave
ManualClose(pid) ==
    close_position(Engine, pid, positions[pid], None,
                   prices[positions[pid].symbol])

TriggerAction(reason) ==
    IF reason = "STOPLOSS" THEN "SL_TRIGGERED" ELSE "TP_TRIGGERED"

SettledAsManualClose(pid) ==
    /\ positions'[pid].close_reason \in {"STOPLOSS", "TAKEPROFIT"}
    /\ positions'[pid].exit_price = prices[positions[pid].symbol]
    /\ positions' = [ManualClose(pid).positions EXCEPT
                        ![pid].close_reason = positions'[pid].close_reason]
    /\ wallet' = ManualClose(pid).wallet
    /\ wallet'.balance =
           Add(wallet.balance,
               Sub(StatedPnl(positions[pid], positions[pid].quantity,
                             prices[positions[pid].symbol]),
                   Mul(Mul(positions[pid].quantity,
                           prices[positions[pid].symbol]), DEFAULT_FEE_RATE)))
    /\ wallet'.locked_margin = Sub(wallet.locked_margin, positions[pid].margin)
    /\ Len(trade_history') = Len(trade_history) + 1
    /\ trade_history' =
           [ManualClose(pid).trade_history EXCEPT
               ![Len(trade_history')].action =
                   TriggerAction(positions'[pid].close_reason)]
    /\ UNCHANGED <<orders, pending_orders>>

C23_TriggerClosesAsManualClose ==
    [][CheckAllPositions =>
          \A pid \in 1..Len(positions) :
             positions[pid].status = "OPEN"
             => IF \/ TpCrossed(positions[pid], prices[positions[pid].symbol])
                   \/ SlCrossed(positions[pid], prices[positions[pid].symbol])
                THEN positions'[pid].status = "CLOSED"
                     /\ SettledAsManualClose(pid)
                ELSE positions'[pid] = positions[pid] /\ wallet' = wallet]_vars

\* a stop-loss has just closed a position at a loss
C23_Witness ==
    /\ result = "ok"
    /\ trade_history # <<>>
    /\ LastTrade.action = "SL_TRIGGERED"
    /\ positions[LastTrade.position_id].status = "CLOSED"
    /\ positions[LastTrade.position_id].close_reason = "STOPLOSS"
    /\ positions[LastTrade.position_id].exit_price
           # positions[LastTrade.position_id].entry_price
    /\ ~TpCrossed(positions[LastTrade.position_id],
                  positions[LastTrade.position_id].exit_price)

(***************************************************************************)
(* C24: for a position and an 8-hour funding interval the wallet is        *)
(* charged or credited at most once: settling again, by a later tick of    *)
(* the monitor or by process_funding_now, an interval that is already      *)
(* settled records no further FundingPayment.                              *)
(***************************************************************************)
\* the funding interval a time falls in: the funding hours reached by then
FundingInterval(t) == t \div FUNDING_INTERVAL_HOURS

StatedFundingAmount(side, quantity, mark_price, funding_rate) ==
    IF Lt(Zero, funding_rate) <=> side = "LONG"
    THEN Neg(Mul(Mul(quantity, mark_price),
                 IF Lt(funding_rate, Zero) THEN Neg(funding_rate)
                 ELSE funding_rate))
    ELSE Mul(Mul(quantity, mark_price),
             IF Lt(funding_rate, Zero) THEN Neg(funding_rate)
             ELSE funding_rate)

StatedMarginRatio(p, mark_price) ==
    Div(Add(p.margin, StatedPnl(p, p.quantity, mark_price)),
        Mul(Mul(p.quantity, p.entry_price), DEFAULT_MMR))

C26_LiquidationClosesThePosition ==
    [][\A m \in LiqMarks :
          CheckPositions(m)
          => \A pid \in 1..Len(positions) :
                positions[pid].status = "OPEN"
                => IF Le(StatedMarginRatio(positions[pid], m), One)
                   THEN /\ positions'[pid].status = "CLOSED"
                        /\ positions'[pid].close_reason = "LIQUIDATION"
                        /\ positions'[pid].exit_price = m
                        /\ Lt(wallet'.balance, wallet.balance)
                   ELSE positions'[pid].status = "OPEN"]_vars

(***************************************************************************)
(* C27: a margin warning for a position is issued at most once while its   *)
(* margin ratio stays below the warning threshold and above 1: a tick      *)
(* issues a warning only for a position that is not marked as warned, the  *)
(* warning marks it, and the mark is removed only by a tick that sees the  *)
(* ratio at or above the threshold (or liquidates the position).           *)
(***************************************************************************)
\* the step issues a margin warning for pid
WarningIssued(pid) ==
    \E k \in (Len(warnings) + 1)..Len(warnings') : warnings'[k] = pid

C28_NoTickAfterStop ==
    stop_call = "returned" => thread # "tick"

(***************************************************************************)
(* C29: under every interleaving of a call of the foreground               *)
(* (close_position or a netting order) with a tick of the SL/TP monitor on *)
(* the same OPEN position, the position is settled exactly once: its       *)
(* margin is released once and there is exactly one closing TradeRecord.   *)
(***************************************************************************)
ClosingActions == {"CLOSE", "SL_TRIGGERED", "TP_TRIGGERED", "LIQUIDATION"}

\* the closing records of position pid in the ledger
ClosingRecords(pid) ==
    {k \in 1..Len(trade_history) :
        /\ trade_history[k].position_id = pid
        /\ trade_history[k].action \in ClosingActions}

C29_SettledExactlyOnce ==
    \A pid \in 1..Len(positions) :
       /\ Cardinality(ClosingRecords(pid)) <= 1
       /\ positions[pid].status = "CLOSED"
          => Cardinality(ClosingRecords(pid)) = 1

(***************************************************************************)
(* C30: from_state(export_state(), price_feed) yields an engine whose      *)
(* wallet, orders, positions, trade_history and pending_orders equal the   *)
(* exporting engine's, and on which later calls give the same results:     *)
(* the restored engine also charges the fee rate of the exporting one.     *)
(***************************************************************************)
C30_RestoredEngineIsTheSame ==
    [][FromState
       => /\ UNCHANGED <<wallet, orders, positions, trade_history,
                         pending_orders>>
          /\ fee_rate' = fee_rate]_vars

(***************************************************************************)
(* C31: under every interleaving of a cancel_order of the foreground with  *)
(* a check_limit_orders of the monitor's tick on the same PENDING limit    *)
(* order, the order ends in exactly one terminal state: once it is         *)
(* CANCELLED or EXPIRED, with its margin released, it is never filled into *)
(* a position.                                                             *)
(***************************************************************************)
\* the ledger records of order oid
OrderTrades(h, oid) == {k \in 1..Len(h) : h[k].order_id = oid}

C31_CancelledOrderIsNeverFilled ==
    [][\A oid \in 1..Len(orders) :
          orders[oid].status \in {"CANCELLED", "EXPIRED"}
              => /\ orders'[oid].status = orders[oid].status
                 /\ OrderTrades(trade_history', oid) = {}]_vars

\* the pnl a trade record carries (records of fills carry none)
PnlOf(h) == [k \in 1..Len(h) |-> IF h[k].pnl = None THEN Zero ELSE h[k].pnl]

(***************************************************************************)
(* C32: the ledger carries all the realized PnL: the sum of pnl over the   *)
(* trade records equals wallet.realized_pnl after any sequence of calls.   *)
(***************************************************************************)
C32_LedgerCarriesRealizedPnl ==
    SumSeq(PnlOf(trade_history)) = wallet.realized_pnl

(***************************************************************************)
(* C33: every OPEN position has margin = quantity * entry_price / leverage *)
(* after any fills (averaging in with another leverage included) and       *)
(* partial closes.                                                         *)
(***************************************************************************)
C33_MarginIsNotionalOverLeverage ==
    \A pid \in 1..Len(positions) :
        positions[pid].status = "OPEN" =>
            positions[pid].margin =
                Div(Mul(positions[pid].quantity, positions[pid].entry_price),
                    Dec(positions[pid].leverage))

C35_TickGoesOnAfterAFailure ==
    [][(thread = "tick" /\ thread' = "sleep") =>
          /\ \A i \in 1..Len(tick.pids) :
                positions'[tick.pids[i]].status = "OPEN" =>
                    check_position_triggers(positions'[tick.pids[i]],
                        tick.prices[positions[tick.pids[i]].symbol]) = "None"
          /\ \A oid \in 1..Len(orders) :
                (orders[oid].status = "PENDING" /\ LimitReached(orders[oid]))
                    => orders'[oid].status # "PENDING"]_vars

\* the ids in the pending index of symbol s
Indexed(po, s) == {po[s][k] : k \in 1..Len(po[s])}

(***************************************************************************)
(* C36: an order id is in pending_orders[symbol] exactly when the order    *)
(* exists, is PENDING and has that symbol; list_open_orders returns the    *)
(* orders of the pending index and no others.                              *)
(***************************************************************************)
C36_PendingIndexIsThePendingOrders ==
    /\ \A s \in Symbols :
          Indexed(pending_orders, s) =
              {oid \in 1..Len(orders) :
                  orders[oid].status = "PENDING" /\ orders[oid].symbol = s}
    /\ list_open_orders(orders) =
           UNION {Indexed(pending_orders, s) : s \in Symbols}

\* a PENDING order in the index beside one that has left it
C36_Witness ==
    /\ C36_PendingIndexIsThePendingOrders
    /\ \E oid \in 1..Len(orders) : orders[oid].status = "PENDING"
    /\ \E oid \in 1..Len(orders) :
          orders[oid].order_type = "LIMIT" /\ orders[oid].status # "PENDING"

(***************************************************************************)
(* C37: every FILLED order has a position_id that names a position of the  *)
(* engine, and so has every OPEN trade record, the records of the orders   *)
(* that exactly net off an opposite position included.                     *)
(***************************************************************************)
C37_FillsNameTheirPosition ==
    /\ \A oid \in 1..Len(orders) :
          orders[oid].status = "FILLED" =>
              orders[oid].position_id \in 1..Len(positions)
    /\ \A k \in 1..Len(trade_history) :
          trade_history[k].action = "OPEN" =>
              trade_history[k].position_id \in 1..Len(positions)

\* fee_paid of the FILLED orders
FilledFees(os) ==
    [i \in 1..Len(os) |-> IF os[i].status = "FILLED" THEN os[i].fee_paid ELSE Zero]

(***************************************************************************)
(* C38: money is conserved by the engine's calls: wallet.balance is the    *)
(* initial balance plus wallet.realized_pnl minus the fee_paid of all      *)
(* FILLED orders.                                                          *)
(***************************************************************************)
C38_MoneyIsConserved ==
    wallet.balance =
        Sub(Add(InitialBalance, wallet.realized_pnl), SumSeq(FilledFees(orders)))

\* a fill at a fee and a close at a profit
C38_Witness ==
    /\ C38_MoneyIsConserved
    /\ Lt(Zero, wallet.realized_pnl)
    /\ \E oid \in 1..Len(orders) :
          orders[oid].status = "FILLED" /\ Lt(Zero, orders[oid].fee_paid)
    /\ \E k \in 1..Len(trade_history) : trade_history[k].action # "OPEN"

\* the loop threads that have not ended
LoopThreads ==
    (IF thread \in {"loop", "tick", "sleep"} THEN 1 ELSE 0)
        + (IF orphan.at # "none" THEN 1 ELSE 0)

(***************************************************************************)
(* C39: after any sequence of start() and stop() calls at most one loop    *)
(* thread of the monitor is alive: a start() after a stop() never leaves   *)
(* the thread of the earlier start() beside the new one.                   *)
(***************************************************************************)
C39_AtMostOneLoopThread == LoopThreads <= 1


====
